---- MODULE Spec2Model ----
(***************************************************************************)
(* Wildcard event emitter: the pattern index (a compressed trie of         *)
(* HandlerNode objects) and the PatternMatcher operations on it.           *)
(*                                                                         *)
(* Strings are sequences of one-character strings; a character (a Map key, *)
(* a trail prefix) is a string of length one, as in the source.  Objects   *)
(* that the source handles by reference (HandlerNode, Map, Set) live in a  *)
(* heap and are named by their index; 0 is null.  A Map is the sequence of *)
(* its entries and a Set the sequence of its elements, both in insertion   *)
(* order, which is the order in which the source iterates them.            *)
(***************************************************************************)
EXTENDS Integers, Sequences, FiniteSets, TLC

VARIABLES heap, last, subs, permanent, temporary, listeners

\* the listeners of symbol keys, which the emitter keeps outside the trie
symbolVars == <<permanent, temporary, listeners>>

vars == <<heap, last, subs, permanent, temporary, listeners>>

-----------------------------------------------------------------------------
(* Bounds of the model *)

\* the most handler registrations the trie holds at a time
MaxSubs == 2

Handlers == {"h1", "h2"}

\* remove(pattern) without a handler
NoHandler == "none"

\* the symbols the callers use as keys
Symbols == {"s1", "s2"}

\* no symbol: the operation had a string key
NoSymbol == "none"

\* the most listeners the symbol keys hold at a time
MaxListeners == 3

\* the patterns the callers subscribe to and unsubscribe from: the empty
\* pattern, literals sharing a prefix, leading, trailing, inner and
\* repeated wildcards
Patterns ==
  { <<>>, <<"*">>, <<"a">>, <<"a", "a">>, <<"a", "b">>,
    <<"a", "*">>, <<"a", "*", "*">>, <<"*", "a">>,
    <<"*", "a", "*">>, <<"*", "a", "a">>, <<"*", "a", "b">>,
    <<"a", "*", "a">> }

\* the names the callers emit
Names ==
  { <<>>, <<"a">>, <<"b">>, <<"*">>, <<"a", "a">>, <<"a", "b">>,
    <<"a", "a", "a">>, <<"a", "a", "b">>, <<"a", "b", "a">> }

-----------------------------------------------------------------------------
(* Strings *)

EMPTY == <<>>

WILDCARD == <<"*">>

\* s[i], zero-based, a string of length one
CharAt(s, i) == <<s[i + 1]>>

\* s.slice(from, to)
Slice(s, from, to) == SubSeq(s, from + 1, to)

\* s.slice(from)
SliceFrom(s, from) == SubSeq(s, from + 1, Len(s))

\* a startsWith for which a "*" of s stands for any character
StartsWithStarAsAny(s, t, pos) ==
  /\ pos + Len(t) <= Len(s)
  /\ \A i \in 1..Len(t) : s[pos + i] = t[i] \/ s[pos + i] = "*"

\* s.startsWith(t, pos)
StartsWith(s, t, pos) ==
  /\ pos + Len(t) <= Len(s)
  /\ \A i \in 1..Len(t) : s[pos + i] = t[i]

Min(a, b) == IF a < b THEN a ELSE b

\* a normalize that leaves the runs of "*" as they are
normalizeKeepsRuns(pattern) == pattern

RECURSIVE normalize(_)
\* pattern.replace(/(\*)+/g, WILDCARD)
normalize(pattern) ==
  IF pattern = <<>> THEN <<>>
  ELSE IF Len(pattern) >= 2 /\ pattern[1] = "*" /\ pattern[2] = "*"
       THEN normalize(Tail(pattern))
       ELSE <<pattern[1]>> \o normalize(Tail(pattern))

\* a split that takes the whole pattern for one literal segment
SplitWildcardWhole(pattern) == <<pattern>>

RECURSIVE SplitWildcard(_)
\* pattern.split(WILDCARD): the literal segments, at least one
SplitWildcard(pattern) ==
  IF \A i \in 1..Len(pattern) : pattern[i] # "*" THEN <<pattern>>
  ELSE LET k == CHOOSE i \in 1..Len(pattern) :
                  /\ pattern[i] = "*"
                  /\ \A j \in 1..(i - 1) : pattern[j] # "*"
       IN  <<SubSeq(pattern, 1, k - 1)>>
             \o SplitWildcard(SubSeq(pattern, k + 1, Len(pattern)))

-----------------------------------------------------------------------------
(* The heap: HandlerNode, Map and Set objects *)

\* the value of HandlerNode.failure that stands for null
NoFailure == <<-1>>

\* new HandlerNode(pattern)
HandlerNode(pattern) ==
  [pattern |-> pattern, children |-> 0, permanent |-> 0, temporary |-> 0,
   wildcard |-> 0, failure |-> NoFailure]

\* the heap of a new PatternMatcher: the root node alone
EmptyHeap ==
  [nodes |-> <<HandlerNode(EMPTY)>>, maps |-> <<>>, sets |-> <<>>,
   err |-> FALSE]

Root == 1

\* writing one field of a node
SetField(H, n, field, value) ==
  [H EXCEPT !.nodes[n] = [H.nodes[n] EXCEPT ![field] = value]]

\* allocation of a node; the new node is the last one
AllocNode(H, pattern) == [H EXCEPT !.nodes = Append(H.nodes, HandlerNode(pattern))]

\* new Map(); the new map is the last one
AllocMap(H) == [H EXCEPT !.maps = Append(H.maps, <<>>)]

\* new Set(); the new set is the last one
AllocSet(H) == [H EXCEPT !.sets = Append(H.sets, <<>>)]

\* map.get(key), 0 when undefined; m may be null (children?.get)
MapGet(H, m, key) ==
  IF m = 0 THEN 0
  ELSE LET e == H.maps[m]
       IN  IF \E i \in 1..Len(e) : e[i][1] = key
           THEN e[CHOOSE i \in 1..Len(e) : e[i][1] = key][2]
           ELSE 0

\* map.set(key, node): an existing key keeps its place
MapSet(H, m, key, node) ==
  LET e == H.maps[m]
  IN  IF \E i \in 1..Len(e) : e[i][1] = key
      THEN [H EXCEPT !.maps[m] =
              <<>> \o [i \in 1..Len(e) |-> IF e[i][1] = key THEN <<key, node>> ELSE e[i]]]
      ELSE [H EXCEPT !.maps[m] = Append(e, <<key, node>>)]

\* map.delete(key)
MapDelete(H, m, key) ==
  [H EXCEPT !.maps[m] = SelectSeq(H.maps[m], LAMBDA x : x[1] # key)]

MapSize(H, m) == Len(H.maps[m])

\* set.has(handler); s may be null
SetHas(H, s, handler) ==
  s # 0 /\ \E i \in 1..Len(H.sets[s]) : H.sets[s][i] = handler

\* a set.add that puts the new element in front
SetAddFirst(H, s, handler) ==
  IF SetHas(H, s, handler) THEN H
  ELSE [H EXCEPT !.sets[s] = <<handler>> \o H.sets[s]]

\* set.add(handler)
SetAdd(H, s, handler) ==
  IF SetHas(H, s, handler) THEN H
  ELSE [H EXCEPT !.sets[s] = Append(H.sets[s], handler)]

\* set.delete(handler)
SetDelete(H, s, handler) ==
  [H EXCEPT !.sets[s] = SelectSeq(H.sets[s], LAMBDA x : x # handler)]

\* the elements of a set in iteration order; s may be null (set?.forEach)
SetValues(H, s) == IF s = 0 THEN <<>> ELSE H.sets[s]

SetSize(H, s) == IF s = 0 THEN 0 ELSE Len(H.sets[s])

-----------------------------------------------------------------------------
(* HandlerNode *)

RECURSIVE MatchLen(_, _, _, _, _)
\* the loop of match: the number of characters that agree
MatchLen(current, pattern, cursor, len, i) ==
  IF i < len /\ current[i + 1] = pattern[cursor + i + 1]
  THEN MatchLen(current, pattern, cursor, len, i + 1)
  ELSE i

\* node.match(pattern, cursor)
match(H, n, pattern, cursor) ==
  LET current == H.nodes[n].pattern
      len     == Min(Len(current), Len(pattern) - cursor)
  IN  Slice(pattern, cursor, cursor + MatchLen(current, pattern, cursor, len, 0))

\* node.split(match) that keys the node by the first character of the match,
\* match[0], which is undefined for the empty match
splitKeyedByMatch(H, n, m) ==
  LET rest == SliceFrom(H.nodes[n].pattern, Len(m))
      node == Len(H.nodes) + 1
      map  == Len(H.maps) + 1
  IN  [heap |-> MapSet(
                  SetField(
                    AllocMap(AllocNode(
                      SetField(SetField(H, n, "pattern", rest), n, "failure", NoFailure),
                      m)),
                    node, "children", map),
                  map, IF m = EMPTY THEN <<"undefined">> ELSE CharAt(m, 0), n),
       node |-> node]

\* node.split(match): [heap, node], node the new parent; the node keeps the
\* rest of its label and becomes the only child of the new parent
split(H, n, m) ==
  LET rest == SliceFrom(H.nodes[n].pattern, Len(m))
      node == Len(H.nodes) + 1
      map  == Len(H.maps) + 1
  IN  [heap |-> MapSet(
                  SetField(
                    AllocMap(AllocNode(
                      SetField(SetField(H, n, "pattern", rest), n, "failure", NoFailure),
                      m)),
                    node, "children", map),
                  map, CharAt(rest, 0), n),
       node |-> node]

\* node.remove(handler) that looks in the permanent set alone
removeHandlerPermanentOnly(H, n, handler) ==
  LET nd == H.nodes[n]
  IN  IF handler = NoHandler
      THEN IF nd.permanent = 0 /\ nd.temporary = 0
           THEN [heap |-> H, ret |-> FALSE]
           ELSE [heap |-> SetField(SetField(H, n, "permanent", 0), n, "temporary", 0),
                 ret |-> TRUE]
      ELSE IF SetHas(H, nd.permanent, handler)
           THEN LET H1 == SetDelete(H, nd.permanent, handler)
                IN  [heap |-> IF SetSize(H1, nd.permanent) = 0
                              THEN SetField(H1, n, "permanent", 0)
                              ELSE H1,
                     ret |-> TRUE]
           ELSE [heap |-> H, ret |-> FALSE]

\* node.remove(handler): [heap, ret]
removeHandler(H, n, handler) ==
  LET nd == H.nodes[n]
  IN  IF handler = NoHandler
      THEN IF nd.permanent = 0 /\ nd.temporary = 0
           THEN [heap |-> H, ret |-> FALSE]
           ELSE [heap |-> SetField(SetField(H, n, "permanent", 0), n, "temporary", 0),
                 ret |-> TRUE]
      ELSE IF SetHas(H, nd.permanent, handler)
           THEN LET H1 == SetDelete(H, nd.permanent, handler)
                IN  [heap |-> IF SetSize(H1, nd.permanent) = 0
                              THEN SetField(H1, n, "permanent", 0)
                              ELSE H1,
                     ret |-> TRUE]
           ELSE IF ~SetHas(H, nd.temporary, handler)
                THEN [heap |-> H, ret |-> FALSE]
                ELSE LET H1 == SetDelete(H, nd.temporary, handler)
                     IN  [heap |-> IF SetSize(H1, nd.temporary) > 0
                                   THEN H1
                                   ELSE SetField(H1, n, "temporary", 0),
                          ret |-> TRUE]

\* node.shrink() that never reports a childless node as droppable
shrinkKeepsLeaf(H, n) ==
  LET nd == H.nodes[n]
  IN  IF SetSize(H, nd.permanent) > 0 THEN [heap |-> H, ret |-> FALSE]
      ELSE IF SetSize(H, nd.temporary) > 0 THEN [heap |-> H, ret |-> FALSE]
      ELSE IF nd.wildcard # 0 THEN [heap |-> H, ret |-> FALSE]
      ELSE IF nd.children = 0 THEN [heap |-> H, ret |-> FALSE]
      ELSE IF MapSize(H, nd.children) > 1 THEN [heap |-> H, ret |-> FALSE]
      ELSE IF nd.pattern = EMPTY THEN [heap |-> H, ret |-> TRUE]
      ELSE IF MapSize(H, nd.children) = 0
           THEN [heap |-> [H EXCEPT !.err = TRUE], ret |-> FALSE]
           ELSE LET replace == H.nodes[H.maps[nd.children][1][2]]
                IN  [heap |-> [H EXCEPT !.nodes[n] =
                                 [pattern   |-> nd.pattern \o replace.pattern,
                                  children  |-> replace.children,
                                  permanent |-> replace.permanent,
                                  temporary |-> replace.temporary,
                                  wildcard  |-> replace.wildcard,
                                  failure   |-> NoFailure]],
                     ret |-> TRUE]

\* node.shrink() that reports the merge without doing it
shrinkNoMerge(H, n) ==
  LET nd == H.nodes[n]
  IN  IF SetSize(H, nd.permanent) > 0 THEN [heap |-> H, ret |-> FALSE]
      ELSE IF SetSize(H, nd.temporary) > 0 THEN [heap |-> H, ret |-> FALSE]
      ELSE IF nd.wildcard # 0 THEN [heap |-> H, ret |-> FALSE]
      ELSE IF nd.children = 0 THEN [heap |-> H, ret |-> TRUE]
      ELSE IF MapSize(H, nd.children) > 1 THEN [heap |-> H, ret |-> FALSE]
      ELSE [heap |-> H, ret |-> TRUE]

\* node.shrink() that merges a node with an empty label too
shrinkAtEmptyLabel(H, n) ==
  LET nd == H.nodes[n]
  IN  IF SetSize(H, nd.permanent) > 0 THEN [heap |-> H, ret |-> FALSE]
      ELSE IF SetSize(H, nd.temporary) > 0 THEN [heap |-> H, ret |-> FALSE]
      ELSE IF nd.wildcard # 0 THEN [heap |-> H, ret |-> FALSE]
      ELSE IF nd.children = 0 THEN [heap |-> H, ret |-> TRUE]
      ELSE IF MapSize(H, nd.children) > 1 THEN [heap |-> H, ret |-> FALSE]
      ELSE IF MapSize(H, nd.children) = 0
           THEN [heap |-> [H EXCEPT !.err = TRUE], ret |-> FALSE]
           ELSE LET replace == H.nodes[H.maps[nd.children][1][2]]
                IN  [heap |-> [H EXCEPT !.nodes[n] =
                                 [pattern   |-> nd.pattern \o replace.pattern,
                                  children  |-> replace.children,
                                  permanent |-> replace.permanent,
                                  temporary |-> replace.temporary,
                                  wildcard  |-> replace.wildcard,
                                  failure   |-> NoFailure]],
                     ret |-> TRUE]

\* node.shrink() that takes the label and the handler sets of the child and
\* keeps the child
shrinkKeepsChild(H, n) ==
  LET nd == H.nodes[n]
  IN  IF SetSize(H, nd.permanent) > 0 THEN [heap |-> H, ret |-> FALSE]
      ELSE IF SetSize(H, nd.temporary) > 0 THEN [heap |-> H, ret |-> FALSE]
      ELSE IF nd.wildcard # 0 THEN [heap |-> H, ret |-> FALSE]
      ELSE IF nd.children = 0 THEN [heap |-> H, ret |-> TRUE]
      ELSE IF MapSize(H, nd.children) > 1 THEN [heap |-> H, ret |-> FALSE]
      ELSE IF nd.pattern = EMPTY THEN [heap |-> H, ret |-> TRUE]
      ELSE IF MapSize(H, nd.children) = 0
           THEN [heap |-> [H EXCEPT !.err = TRUE], ret |-> FALSE]
           ELSE LET replace == H.nodes[H.maps[nd.children][1][2]]
                IN  [heap |-> [H EXCEPT !.nodes[n] =
                                 [pattern   |-> nd.pattern \o replace.pattern,
                                  children  |-> nd.children,
                                  permanent |-> replace.permanent,
                                  temporary |-> replace.temporary,
                                  wildcard  |-> nd.wildcard,
                                  failure   |-> NoFailure]],
                     ret |-> TRUE]

\* node.shrink(): [heap, ret]; reading the first value of an empty Map is a
\* TypeError, recorded in err
shrink(H, n) ==
  LET nd == H.nodes[n]
  IN  IF SetSize(H, nd.permanent) > 0 THEN [heap |-> H, ret |-> FALSE]
      ELSE IF SetSize(H, nd.temporary) > 0 THEN [heap |-> H, ret |-> FALSE]
      ELSE IF nd.wildcard # 0 THEN [heap |-> H, ret |-> FALSE]
      ELSE IF nd.children = 0 THEN [heap |-> H, ret |-> TRUE]
      ELSE IF MapSize(H, nd.children) > 1 THEN [heap |-> H, ret |-> FALSE]
      ELSE IF nd.pattern = EMPTY THEN [heap |-> H, ret |-> TRUE]
      ELSE IF MapSize(H, nd.children) = 0
           THEN [heap |-> [H EXCEPT !.err = TRUE], ret |-> FALSE]
           ELSE LET replace == H.nodes[H.maps[nd.children][1][2]]
                IN  [heap |-> [H EXCEPT !.nodes[n] =
                                 [pattern   |-> nd.pattern \o replace.pattern,
                                  children  |-> replace.children,
                                  permanent |-> replace.permanent,
                                  temporary |-> replace.temporary,
                                  wildcard  |-> replace.wildcard,
                                  failure   |-> NoFailure]],
                     ret |-> TRUE]

\* node.isEmpty()
isEmpty(H, n) ==
  LET nd == H.nodes[n]
  IN  nd.permanent = 0 /\ nd.temporary = 0 /\ nd.children = 0 /\ nd.wildcard = 0

RECURSIVE FailureFall(_, _, _, _)
\* the while loop of getFailure and of the scan in call: fall back along the
\* failure table until the character c can extend the match
FailureFall(pattern, failure, j, c) ==
  IF j > 0 /\ c # pattern[j + 1]
  THEN FailureFall(pattern, failure, failure[j], c)
  ELSE j

\* the body of the for loop of getFailure at i, st = [failure, j]; the cells
\* are 8-bit unsigned
FailureStep(pattern, st, i) ==
  LET j1 == FailureFall(pattern, st.failure, st.j, pattern[i + 1])
      j2 == IF pattern[i + 1] = pattern[j1 + 1] THEN j1 + 1 ELSE j1
  IN  [failure |-> [st.failure EXCEPT ![i + 1] = j2 % 256], j |-> j2]

RECURSIVE FailureLoop(_, _, _, _)
\* the for loop of getFailure for i from lo to hi, in order: the first half
\* of the range, and from the state it leaves, the second
FailureLoop(pattern, st, lo, hi) ==
  IF lo > hi THEN st
  ELSE IF lo = hi THEN FailureStep(pattern, st, lo)
  ELSE CHOOSE r \in { FailureLoop(pattern, half, (lo + hi) \div 2 + 1, hi) :
                        half \in {FailureLoop(pattern, st, lo, (lo + hi) \div 2)} } : TRUE

\* node.getFailure(): [heap, failure]
getFailure(H, n) ==
  IF H.nodes[n].failure # NoFailure
  THEN [heap |-> H, failure |-> H.nodes[n].failure]
  ELSE LET pattern == H.nodes[n].pattern
           failure == FailureLoop(pattern,
                                  [failure |-> <<>> \o [i \in 1..Len(pattern) |-> 0],
                                   j |-> 0],
                                  1, Len(pattern) - 1).failure
       IN  [heap |-> SetField(H, n, "failure", failure), failure |-> failure]

-----------------------------------------------------------------------------
(* PatternMatcher: clear, insert *)

\* a clear that forgets the wildcard child of the root
clearKeepsWildcard(H) ==
  [H EXCEPT !.nodes[Root] =
     [H.nodes[Root] EXCEPT !.permanent = 0, !.temporary = 0, !.children = 0]]

\* clear(): the fields of the root are set to null
clear(H) ==
  [H EXCEPT !.nodes[Root] =
     [H.nodes[Root] EXCEPT !.permanent = 0, !.temporary = 0,
                           !.wildcard = 0, !.children = 0]]

\* current.children ??= new Map(): [heap, map]
EnsureChildren(H, n) ==
  IF H.nodes[n].children # 0 THEN [heap |-> H, map |-> H.nodes[n].children]
  ELSE [heap |-> SetField(AllocMap(H), n, "children", Len(H.maps) + 1),
        map  |-> Len(H.maps) + 1]

\* (current.children ??= new Map()).set(prefix, node)
SetChild(H, current, prefix, node) ==
  LET c == EnsureChildren(H, current)
  IN  MapSet(c.heap, c.map, prefix, node)

RECURSIVE InsertSegment(_, _, _, _)
\* the inner loop of insert, consuming one literal segment: [heap, node]
InsertSegment(H, current, remain, cursor) ==
  IF cursor >= Len(remain) THEN [heap |-> H, node |-> current]
  ELSE
    LET prefix == CharAt(remain, cursor)
        child  == MapGet(H, H.nodes[current].children, prefix)
    IN  IF child = 0
        THEN [heap |-> SetChild(AllocNode(H, SliceFrom(remain, cursor)),
                                current, prefix, Len(H.nodes) + 1),
              node |-> Len(H.nodes) + 1]
        ELSE LET m == match(H, child, remain, cursor)
             IN  IF m = H.nodes[child].pattern
                 THEN InsertSegment(H, child, remain, cursor + Len(m))
                 ELSE LET sp == split(H, child, m)
                      IN  InsertSegment(SetChild(sp.heap, current, prefix, sp.node),
                                        sp.node, remain, cursor + Len(m))

RECURSIVE InsertSegments(_, _, _, _)
RECURSIVE EnterWildcard(_, _, _)
\* the end of the outer loop of insert, r the node that segment i reached:
\* current = current.wildcard ??= new HandlerNode(), unless i is the last
EnterWildcard(r, patterns, i) ==
  IF i = Len(patterns) THEN r
  ELSE IF r.heap.nodes[r.node].wildcard # 0
       THEN InsertSegments(r.heap, r.heap.nodes[r.node].wildcard, patterns, i + 1)
       ELSE InsertSegments(
              SetField(AllocNode(r.heap, EMPTY), r.node, "wildcard",
                       Len(r.heap.nodes) + 1),
              Len(r.heap.nodes) + 1, patterns, i + 1)

\* the outer loop of insert over the segments, from the i-th on: [heap, node]
InsertSegments(H, current, patterns, i) ==
  EnterWildcard(InsertSegment(H, current, patterns[i], 0), patterns, i)

\* (current[field] ??= new Set()).add(handler), r the node the loops reached
AddHandler(r, field, handler) ==
  IF r.heap.nodes[r.node][field] # 0
  THEN SetAdd(r.heap, r.heap.nodes[r.node][field], handler)
  ELSE SetAdd(SetField(AllocSet(r.heap), r.node, field, Len(r.heap.sets) + 1),
              Len(r.heap.sets) + 1, handler)

\* insert(pattern, handler, isTemporary)
insert(H, pattern, handler, isTemporary) ==
  AddHandler(InsertSegments(H, Root, SplitWildcard(normalize(pattern)), 1),
             IF isTemporary THEN "temporary" ELSE "permanent", handler)

-----------------------------------------------------------------------------
(* PatternMatcher: the descent shared by remove, handlers, handlersCount *)

\* a descent: found, the node reached, and the stack of [prefix, node] hops
NotFound == [found |-> FALSE, node |-> 0, stack |-> <<>>]

RECURSIVE FindSegmentNoCheck(_, _, _, _, _)
\* the descent without the startsWith test on the child's label
FindSegmentNoCheck(H, current, remain, cursor, stack) ==
  IF cursor >= Len(remain)
  THEN [found |-> TRUE, node |-> current, stack |-> stack]
  ELSE LET prefix == CharAt(remain, cursor)
           child  == MapGet(H, H.nodes[current].children, prefix)
       IN  IF child = 0
           THEN NotFound
           ELSE FindSegmentNoCheck(H, child, remain,
                                   cursor + Len(H.nodes[child].pattern),
                                   Append(stack, <<prefix, current>>))

RECURSIVE FindSegment(_, _, _, _, _)
\* the inner loop of remove / handlers / handlersCount
FindSegment(H, current, remain, cursor, stack) ==
  IF cursor >= Len(remain)
  THEN [found |-> TRUE, node |-> current, stack |-> stack]
  ELSE LET prefix == CharAt(remain, cursor)
           child  == MapGet(H, H.nodes[current].children, prefix)
       IN  IF child = 0 \/ ~StartsWith(remain, H.nodes[child].pattern, cursor)
           THEN NotFound
           ELSE FindSegment(H, child, remain,
                            cursor + Len(H.nodes[child].pattern),
                            Append(stack, <<prefix, current>>))

RECURSIVE FindSegments(_, _, _, _, _)
\* the outer loop of remove / handlers / handlersCount
FindSegments(H, current, patterns, i, stack) ==
  LET r == FindSegment(H, current, patterns[i], 0, stack)
  IN  IF ~r.found THEN NotFound
      ELSE IF i = Len(patterns) THEN r
      ELSE IF H.nodes[r.node].wildcard = 0 THEN NotFound
      ELSE FindSegments(H, H.nodes[r.node].wildcard, patterns, i + 1,
                        Append(r.stack, <<EMPTY, r.node>>))

\* the terminal node of a pattern and the hops to it
Find(H, pattern) == FindSegments(H, Root, SplitWildcard(normalize(pattern)), 1, <<>>)

\* handlers(pattern) that yields the permanent handlers alone
handlersPermanentOnly(H, pattern) ==
  LET r == Find(H, pattern)
  IN  IF ~r.found THEN <<>>
      ELSE SetValues(H, H.nodes[r.node].permanent)

\* handlers(pattern): the handlers yielded, in order
handlers(H, pattern) ==
  LET r == Find(H, pattern)
  IN  IF ~r.found THEN <<>>
      ELSE SetValues(H, H.nodes[r.node].permanent)
             \o SetValues(H, H.nodes[r.node].temporary)

\* handlersCount(pattern) that counts the permanent handlers alone
handlersCountPermanentOnly(H, pattern) ==
  LET r == Find(H, pattern)
  IN  IF ~r.found THEN 0
      ELSE SetSize(H, H.nodes[r.node].permanent)

\* handlersCount(pattern)
handlersCount(H, pattern) ==
  LET r == Find(H, pattern)
  IN  IF ~r.found THEN 0
      ELSE SetSize(H, H.nodes[r.node].permanent)
             + SetSize(H, H.nodes[r.node].temporary)

-----------------------------------------------------------------------------
(* PatternMatcher: remove *)

\* the cleanup that detaches the child without asking whether it is empty
DetachChild(H, prefix, current) ==
  LET children == H.nodes[current].children
      child    == MapGet(H, children, prefix)
  IN  IF child # 0
      THEN LET H1 == MapDelete(H, children, prefix)
           IN  IF MapSize(H1, children) = 0
               THEN SetField(H1, current, "children", 0)
               ELSE H1
      ELSE H

\* the body of the cleanup loops of remove and call for a literal or a
\* wildcard hop: the child that became empty is detached from current
DetachEmptyChild(H, prefix, current) ==
  LET children == H.nodes[current].children
      child    == MapGet(H, children, prefix)
  IN  IF child # 0 /\ isEmpty(H, child)
      THEN LET H1 == MapDelete(H, children, prefix)
           IN  IF MapSize(H1, children) = 0
               THEN SetField(H1, current, "children", 0)
               ELSE H1
      ELSE H

RECURSIVE RemoveUnwind(_, _)
\* the while loop of remove over the stack, leaf to root
RemoveUnwind(H, stack) ==
  IF stack = <<>> \/ H.err THEN H
  ELSE LET top     == stack[Len(stack)]
           prefix  == top[1]
           current == top[2]
           w       == H.nodes[current].wildcard
           H1      == IF prefix = EMPTY
                      THEN IF w # 0 /\ isEmpty(H, w)
                           THEN SetField(H, current, "wildcard", 0)
                           ELSE H
                      ELSE DetachEmptyChild(H, prefix, current)
           s       == shrink(H1, current)
       IN  IF s.ret THEN RemoveUnwind(s.heap, SubSeq(stack, 1, Len(stack) - 1))
           ELSE s.heap

\* remove(pattern, handler?) that leaves the hops above the terminal node as
\* they are
removeNoUnwind(H, pattern, handler) ==
  LET r == Find(H, pattern)
  IN  IF ~r.found THEN H
      ELSE LET rm == removeHandler(H, r.node, handler)
           IN  IF ~rm.ret THEN H
               ELSE shrink(rm.heap, r.node).heap

\* remove(pattern, handler?)
remove(H, pattern, handler) ==
  LET r == Find(H, pattern)
  IN  IF ~r.found THEN H
      ELSE LET rm == removeHandler(H, r.node, handler)
           IN  IF ~rm.ret THEN H
               ELSE LET s == shrink(rm.heap, r.node)
                    IN  IF ~s.ret THEN s.heap
                        ELSE RemoveUnwind(s.heap, r.stack)

-----------------------------------------------------------------------------
(* PatternMatcher: patterns *)

RECURSIVE PatternsWalk(_, _, _)
\* the loop of patterns() over its stack of [prefix, node]: the patterns
\* yielded, in order
PatternsWalk(H, stack, out) ==
  IF stack = <<>> THEN out
  ELSE LET top      == stack[Len(stack)]
           current  == H.nodes[top[2]]
           pattern  == top[1] \o current.pattern
           out1     == IF current.temporary # 0 \/ current.permanent # 0
                       THEN Append(out, pattern) ELSE out
           st1      == SubSeq(stack, 1, Len(stack) - 1)
           st2      == IF current.wildcard # 0
                       THEN Append(st1, <<pattern \o WILDCARD, current.wildcard>>)
                       ELSE st1
           kids     == IF current.children = 0 THEN <<>> ELSE H.maps[current.children]
           st3      == st2 \o [i \in 1..Len(kids) |-> <<pattern, kids[i][2]>>]
       IN  PatternsWalk(H, st3, out1)

\* patterns()
patterns(H) == PatternsWalk(H, <<<<EMPTY, Root>>>>, <<>>)

-----------------------------------------------------------------------------
(* PatternMatcher: call, the discovery phase *)

RECURSIVE KmpScanFirst(_, _, _, _, _, _)
\* the kmp loop that stops at the first occurrence
KmpScanFirst(pattern, childPattern, failure, i, j, out) ==
  IF i >= Len(pattern) THEN out
  ELSE LET j1 == FailureFall(childPattern, failure, j, pattern[i + 1])
           j2 == IF pattern[i + 1] = childPattern[j1 + 1] THEN j1 + 1 ELSE j1
       IN  IF j2 # Len(childPattern)
           THEN KmpScanFirst(pattern, childPattern, failure, i + 1, j2, out)
           ELSE Append(out, i + 1)

RECURSIVE KmpScan(_, _, _, _, _, _)
\* the kmp loop of call: the cursors i + 1 that follow each occurrence of
\* childPattern in pattern from position i on, in the order found
KmpScan(pattern, childPattern, failure, i, j, out) ==
  IF i >= Len(pattern) THEN out
  ELSE LET j1 == FailureFall(childPattern, failure, j, pattern[i + 1])
           j2 == IF pattern[i + 1] = childPattern[j1 + 1] THEN j1 + 1 ELSE j1
       IN  IF j2 # Len(childPattern)
           THEN KmpScan(pattern, childPattern, failure, i + 1, j2, out)
           ELSE KmpScan(pattern, childPattern, failure, i + 1, failure[j2],
                        Append(out, i + 1))

RECURSIVE WildcardFanOut(_, _, _, _, _, _)
\* the loop of call over the literal children of a wildcard node, from the
\* k-th on: [heap, search]
WildcardFanOut(H, search, pattern, cursor, wildcard, k) ==
  LET kids == H.maps[H.nodes[wildcard].children]
  IN  IF k > Len(kids) THEN [heap |-> H, search |-> search]
      ELSE LET child == kids[k][2]
               f     == getFailure(H, child)
               cp    == f.heap.nodes[child].pattern
               ends  == KmpScan(pattern, cp, f.failure, cursor, 0, <<>>)
               item  == <<CharAt(cp, 0), wildcard>>
               push  == [x \in 1..Len(ends) |-> <<ends[x], child, <<item>>>>]
           IN  WildcardFanOut(f.heap, search \o push, pattern, cursor, wildcard, k + 1)

RECURSIVE Discover(_, _, _, _)
\* the first while loop of call: [heap, branches]
Discover(H, search, branches, pattern) ==
  IF search = <<>> THEN [heap |-> H, branches |-> branches]
  ELSE
    LET top     == search[Len(search)]
        rest    == SubSeq(search, 1, Len(search) - 1)
        cursor  == top[1]
        current == top[2]
        stack   == top[3]
    IN  IF cursor = Len(pattern)
        THEN Discover(H, rest, Append(branches, Append(stack, <<EMPTY, current>>)),
                      pattern)
        ELSE
          LET prefix   == CharAt(pattern, cursor)
              child    == MapGet(H, H.nodes[current].children, prefix)
              hasChild == child # 0 /\ StartsWith(pattern, H.nodes[child].pattern, cursor)
              wildcard == H.nodes[current].wildcard
              next     == <<cursor + Len(H.nodes[child].pattern), child>>
          IN  IF wildcard = 0
              THEN IF ~hasChild THEN Discover(H, rest, branches, pattern)
                   ELSE Discover(H,
                          Append(rest, <<next[1], next[2],
                                         Append(stack, <<prefix, current>>)>>),
                          branches, pattern)
              ELSE
                LET b1 == Append(branches, Append(stack, <<prefix, current>>))
                    s1 == IF hasChild THEN Append(rest, <<next[1], next[2], <<>>>>)
                          ELSE rest
                IN  IF H.nodes[wildcard].children = 0
                    THEN Discover(H, s1, b1, pattern)
                    ELSE LET f == WildcardFanOut(H, s1, pattern, cursor, wildcard, 1)
                         IN  Discover(f.heap, f.search, b1, pattern)

-----------------------------------------------------------------------------
(* PatternMatcher: call, the invocation phase *)

\* The invocation phase works on r = [heap, fired, called, ret]: the heap, the
\* handlers invoked so far in order, the local called, and the value of the
\* last current.shrink().

\* the firing of a node that forgets to set called for a one-shot handler
FireNodeCalledPermanent(r, n) ==
  LET p == SetValues(r.heap, r.heap.nodes[n].permanent)
      t == SetValues(r.heap, r.heap.nodes[n].temporary)
  IN  [r EXCEPT !.heap   = SetField(r.heap, n, "temporary", 0),
                !.fired  = r.fired \o p \o t,
                !.called = r.called \/ Len(p) > 0]

\* permanent?.forEach, temporary?.forEach and temporary &&= null on node n
FireNode(r, n) ==
  LET p == SetValues(r.heap, r.heap.nodes[n].permanent)
      t == SetValues(r.heap, r.heap.nodes[n].temporary)
  IN  [r EXCEPT !.heap   = SetField(r.heap, n, "temporary", 0),
                !.fired  = r.fired \o p \o t,
                !.called = r.called \/ Len(p) > 0 \/ Len(t) > 0]

\* if (wildcard.isEmpty()) current.wildcard = null
DropEmptyWildcard(r, current, wildcard) ==
  IF isEmpty(r.heap, wildcard)
  THEN [r EXCEPT !.heap = SetField(r.heap, current, "wildcard", 0)]
  ELSE r

\* if (wildcard) { fire it; drop it when it became empty }
FireWildcard(r, current) ==
  LET wildcard == r.heap.nodes[current].wildcard
  IN  IF wildcard = 0 THEN r
      ELSE DropEmptyWildcard(FireNode(r, wildcard), current, wildcard)

\* a hop that fires current wherever on the trail it is
FireOrDetachAlways(r, prefix, current) ==
  IF prefix = EMPTY THEN FireNode(r, current)
  ELSE FireNode([r EXCEPT !.heap = DetachEmptyChild(r.heap, prefix, current)],
                current)

\* the end of a trail fires current; a literal hop detaches the child that
\* became empty
FireOrDetach(r, prefix, current) ==
  IF prefix = EMPTY THEN FireNode(r, current)
  ELSE [r EXCEPT !.heap = DetachEmptyChild(r.heap, prefix, current)]

\* current.shrink(), its value kept in ret
ShrinkHop(r, current) ==
  LET s == shrink(r.heap, current)
  IN  [r EXCEPT !.heap = s.heap, !.ret = s.ret]

\* the body of the inner loop of call for one hop [prefix, current]
ProcessHop(r, prefix, current) ==
  ShrinkHop(FireOrDetach(FireWildcard(r, current), prefix, current), current)

RECURSIVE UnwindTrail(_, _)
\* the inner loop of call over one trail, leaf to root; it ends when the
\* trail is empty or when shrink() returned false
UnwindTrail(r, stack) ==
  IF stack = <<>> \/ ~r.ret \/ r.heap.err THEN r
  ELSE UnwindTrail(ProcessHop(r, stack[Len(stack)][1], stack[Len(stack)][2]),
                   SubSeq(stack, 1, Len(stack) - 1))

RECURSIVE Invoke(_, _)
\* the second while loop of call over the branches, last first
Invoke(r, branches) ==
  IF branches = <<>> \/ r.heap.err THEN r
  ELSE Invoke(UnwindTrail([r EXCEPT !.ret = TRUE], branches[Len(branches)]),
              SubSeq(branches, 1, Len(branches) - 1))

\* the invocation phase on the outcome d = [heap, branches] of the discovery
InvokeBranches(d) ==
  Invoke([heap |-> d.heap, fired |-> <<>>, called |-> FALSE, ret |-> TRUE],
         d.branches)

\* call(pattern, args): [heap, fired, called, ret], fired the handlers invoked
\* in order and called the value returned
call(H, pattern) ==
  InvokeBranches(Discover(H, <<<<0, Root, <<>>>>>>, <<>>, pattern))

-----------------------------------------------------------------------------
(* PatternMatcher: call, when the handlers it invokes act on the emitter.  *)
(* An effect says what the handler `by` does when it is invoked: nothing,  *)
(* a subscription of `handler` under `pattern`, a throw, or, the first     *)
(* time it is invoked, an emit of the name `pattern`.  The other handlers  *)
(* do nothing.  The invocation phase then works on                         *)
(* r = [heap, fired, called, ret, thrown]; once thrown, the exception      *)
(* leaves call and nothing more of it is executed.                         *)

NoEffect ==
  [kind |-> "none", by |-> NoHandler, pattern |-> <<>>, handler |-> NoHandler,
   once |-> FALSE]

\* the handler by calls on / once (pattern, handler) when it is invoked
Subscribes(by, pattern, handler, once) ==
  [kind |-> "subscribe", by |-> by, pattern |-> pattern, handler |-> handler,
   once |-> once]

\* the handler by throws when it is invoked
Throws(by) == [NoEffect EXCEPT !.kind = "throw", !.by = by]

\* the handler by calls emit(name) the first time it is invoked
Emits(by, name) == [NoEffect EXCEPT !.kind = "emit", !.by = by, !.pattern = name]

\* the handler h has run the dispatch c = call(r.heap, name) to its end: the
\* handlers that c invoked follow h, and the outer dispatch goes on with the
\* trie as c left it
Nested(r, h, c) ==
  [r EXCEPT !.heap   = c.heap,
            !.fired  = Append(r.fired, h) \o c.fired,
            !.called = TRUE]

\* (handler(...args), (called ||= true)) for the handler h
Invocation(r, h, e) ==
  IF e.kind = "none" \/ h # e.by
  THEN [r EXCEPT !.fired = Append(r.fired, h), !.called = TRUE]
  ELSE IF e.kind = "throw"
       THEN [r EXCEPT !.fired = Append(r.fired, h), !.thrown = TRUE]
       ELSE IF e.kind = "emit"
            THEN IF \E i \in 1..Len(r.fired) : r.fired[i] = h
                 THEN [r EXCEPT !.fired = Append(r.fired, h), !.called = TRUE]
                 ELSE Nested(r, h, call(r.heap, e.pattern))
            ELSE [r EXCEPT !.heap   = insert(r.heap, e.pattern, e.handler, e.once),
                           !.fired  = Append(r.fired, h),
                           !.called = TRUE]

RECURSIVE ForEach(_, _, _, _)
\* set?.forEach(...) on the Set s, from its i-th element on: Set.prototype
\* .forEach visits the elements in insertion order, those added during the
\* call included
ForEach(r, s, i, e) ==
  IF r.thrown \/ s = 0 THEN r
  ELSE IF i > Len(r.heap.sets[s]) THEN r
       ELSE ForEach(Invocation(r, r.heap.sets[s][i], e), s, i + 1, e)

\* n.temporary &&= null
NullTemporary(r, n) ==
  IF r.thrown THEN r ELSE [r EXCEPT !.heap = SetField(r.heap, n, "temporary", 0)]

\* n.temporary?.forEach(...); n.temporary &&= null
FireTemporary(r, n, e) ==
  NullTemporary(ForEach(r, IF r.thrown THEN 0 ELSE r.heap.nodes[n].temporary, 1, e), n)

\* permanent?.forEach, temporary?.forEach and temporary &&= null on node n
FireNodeWith(r, n, e) ==
  FireTemporary(ForEach(r, r.heap.nodes[n].permanent, 1, e), n, e)

\* if (wildcard.isEmpty()) current.wildcard = null
DropEmptyWildcardWith(r, current, wildcard) ==
  IF r.thrown THEN r ELSE DropEmptyWildcard(r, current, wildcard)

\* if (wildcard) { fire it; drop it when it became empty }
FireWildcardWith(r, current, e) ==
  LET wildcard == r.heap.nodes[current].wildcard
  IN  IF wildcard = 0 THEN r
      ELSE DropEmptyWildcardWith(FireNodeWith(r, wildcard, e), current, wildcard)

\* the end of a trail fires current; a literal hop detaches the child that
\* became empty
FireOrDetachWith(r, prefix, current, e) ==
  IF r.thrown THEN r
  ELSE IF prefix = EMPTY THEN FireNodeWith(r, current, e)
       ELSE [r EXCEPT !.heap = DetachEmptyChild(r.heap, prefix, current)]

\* current.shrink(), its value kept in ret
ShrinkHopWith(r, current) == IF r.thrown THEN r ELSE ShrinkHop(r, current)

\* the body of the inner loop of call for one hop [prefix, current]
ProcessHopWith(r, prefix, current, e) ==
  ShrinkHopWith(
    FireOrDetachWith(FireWildcardWith(r, current, e), prefix, current, e),
    current)

RECURSIVE UnwindTrailWith(_, _, _)
\* the inner loop of call over one trail, leaf to root
UnwindTrailWith(r, stack, e) ==
  IF stack = <<>> \/ ~r.ret \/ r.thrown \/ r.heap.err THEN r
  ELSE UnwindTrailWith(
         ProcessHopWith(r, stack[Len(stack)][1], stack[Len(stack)][2], e),
         SubSeq(stack, 1, Len(stack) - 1), e)

RECURSIVE InvokeWith(_, _, _)
\* the second while loop of call over the branches, last first
InvokeWith(r, branches, e) ==
  IF branches = <<>> \/ r.thrown \/ r.heap.err THEN r
  ELSE InvokeWith(UnwindTrailWith([r EXCEPT !.ret = TRUE], branches[Len(branches)], e),
                  SubSeq(branches, 1, Len(branches) - 1), e)

\* the invocation phase on the outcome d = [heap, branches] of the discovery
InvokeBranchesWith(d, e) ==
  InvokeWith([heap |-> d.heap, fired |-> <<>>, called |-> FALSE, ret |-> TRUE,
              thrown |-> FALSE],
             d.branches, e)

\* call(pattern, args) with handlers that act: [heap, fired, called, ret,
\* thrown], thrown when a handler threw and call did not return
callWith(H, pattern, e) ==
  InvokeBranchesWith(Discover(H, <<<<0, Root, <<>>>>>>, <<>>, pattern), e)

-----------------------------------------------------------------------------
(* Reachability: the objects a PatternMatcher can still reach from its     *)
(* root.  Objects no longer reachable are reclaimed and the remaining ones *)
(* are numbered in the order of a walk from the root, so that a heap is    *)
(* one value whatever the order in which its objects were allocated.       *)

Range(s) == {s[i] : i \in 1..Len(s)}

RECURSIVE ReachOrder(_, _, _)
\* the nodes reachable from the nodes of stack, each once, parents first
ReachOrder(H, stack, seen) ==
  IF stack = <<>> THEN seen
  ELSE LET n == Head(stack)
       IN  IF n = 0 \/ n \in Range(seen) THEN ReachOrder(H, Tail(stack), seen)
           ELSE LET c    == H.nodes[n].children
                    kids == IF c = 0 THEN <<>>
                            ELSE [i \in 1..Len(H.maps[c]) |-> H.maps[c][i][2]]
                IN  ReachOrder(H, kids \o <<H.nodes[n].wildcard>> \o Tail(stack),
                               Append(seen, n))

RECURSIVE Distinct(_, _)
\* the non-null references of s, each once, in order
Distinct(s, out) ==
  IF s = <<>> THEN out
  ELSE IF Head(s) = 0 \/ Head(s) \in Range(out) THEN Distinct(Tail(s), out)
       ELSE Distinct(Tail(s), Append(out, Head(s)))

\* the place of reference x in s, null staying null
IndexIn(s, x) == IF x = 0 THEN 0 ELSE CHOOSE i \in 1..Len(s) : s[i] = x

\* the heap H with its nodes, maps and sets renumbered by their places in
\* order, maps and sets
Renumber(H, order, maps, sets) ==
  [nodes |-> <<>> \o [i \in 1..Len(order) |->
                LET nd == H.nodes[order[i]]
                IN  [pattern   |-> nd.pattern,
                     children  |-> IndexIn(maps, nd.children),
                     permanent |-> IndexIn(sets, nd.permanent),
                     temporary |-> IndexIn(sets, nd.temporary),
                     wildcard  |-> IndexIn(order, nd.wildcard),
                     failure   |-> nd.failure]],
   maps  |-> <<>> \o [i \in 1..Len(maps) |->
                <<>> \o [k \in 1..Len(H.maps[maps[i]]) |->
                   <<H.maps[maps[i]][k][1], IndexIn(order, H.maps[maps[i]][k][2])>>]],
   sets  |-> <<>> \o [i \in 1..Len(sets) |-> H.sets[sets[i]]],
   err   |-> H.err]

\* the maps and sets that the nodes of order refer to
ReachableFrom(H, order) ==
  Renumber(H, order,
    Distinct([i \in 1..Len(order) |-> H.nodes[order[i]].children], <<>>),
    Distinct([i \in 1..(2 * Len(order)) |->
                IF i % 2 = 1 THEN H.nodes[order[(i + 1) \div 2]].permanent
                ELSE H.nodes[order[i \div 2]].temporary], <<>>))

\* the heap restricted to what the root reaches
Reachable(H) == ReachableFrom(H, ReachOrder(H, <<Root>>, <<>>))

RECURSIVE SumLen(_)
SumLen(s) == IF s = <<>> THEN 0 ELSE Len(Head(s)) + SumLen(Tail(s))

\* the number of handler registrations a heap holds
Registrations(H) == SumLen(H.sets)

-----------------------------------------------------------------------------
(* What the contract says of a pattern and of the subscriptions made *)

RECURSIVE Matches(_, _)
\* the name n is in the language of the pattern p, each "*" of p standing for
\* any run of characters, the empty run included
Matches(p, n) ==
  IF p = <<>> THEN n = <<>>
  ELSE IF p[1] = "*"
       THEN \E k \in 0..Len(n) : Matches(Tail(p), SubSeq(n, k + 1, Len(n)))
       ELSE n # <<>> /\ n[1] = p[1] /\ Matches(Tail(p), Tail(n))

\* a subscription: a handler under a normalized pattern, one-shot or not
Sub(p, h, once) == [pattern |-> normalize(p), handler |-> h, once |-> once]

\* the subscriptions that remain after remove(p, h)
SubsAfterRemove(S, p, h) ==
  IF h = NoHandler THEN {s \in S : s.pattern # normalize(p)}
  ELSE IF Sub(p, h, FALSE) \in S THEN S \ {Sub(p, h, FALSE)}
  ELSE S \ {Sub(p, h, TRUE)}

\* the subscriptions that remain after a dispatch of n
SubsAfterCall(S, n) == {s \in S : ~(s.once /\ Matches(s.pattern, n))}

-----------------------------------------------------------------------------
(* The emitter and its caller.  The caller is either between two           *)
(* operations (idle) or has just been handed the result of one, which last *)
(* records: the operation, its arguments, for a dispatch the handlers      *)
(* invoked in order and the value returned, and for a clear the number of  *)
(* registrations it dropped.  subs is the history of the                   *)
(* subscriptions made and neither cancelled nor consumed since.            *)

Idle ==
  [op |-> "idle", pattern |-> <<>>, handler |-> NoHandler, once |-> FALSE,
   fired |-> <<>>, called |-> FALSE, effect |-> NoEffect, thrown |-> FALSE,
   dropped |-> 0, symbol |-> NoSymbol]

Init ==
  /\ heap = EmptyHeap
  /\ last = Idle
  /\ subs = {}
  /\ permanent = <<>>
  /\ temporary = <<>>
  /\ listeners = {}

\* on / once with a string pattern
Insert(p, h, once) ==
  /\ last.op = "idle"
  /\ heap' = Reachable(insert(heap, p, h, once))
  /\ Registrations(heap') <= MaxSubs
  /\ Cardinality(subs \cup {Sub(p, h, once)}) <= MaxSubs
  /\ last' = [Idle EXCEPT !.op = "insert", !.pattern = p, !.handler = h, !.once = once]
  /\ subs' = subs \cup {Sub(p, h, once)}
  /\ UNCHANGED symbolVars

\* off / removeAllListeners with a string pattern
Remove(p, h) ==
  /\ last.op = "idle"
  /\ heap' = Reachable(remove(heap, p, h))
  /\ last' = [Idle EXCEPT !.op = "remove", !.pattern = p, !.handler = h]
  /\ subs' = SubsAfterRemove(subs, p, h)
  /\ UNCHANGED symbolVars

\* emit with a string name
Call(n) ==
  /\ last.op = "idle"
  /\ \E r \in {call(heap, n)} :
       /\ heap' = Reachable(r.heap)
       /\ last' = [Idle EXCEPT !.op = "call", !.pattern = n,
                               !.fired = r.fired, !.called = r.called]
  /\ subs' = SubsAfterCall(subs, n)
  /\ UNCHANGED symbolVars

\* removeAllListeners()
Clear ==
  /\ last.op = "idle"
  /\ heap' = Reachable(clear(heap))
  /\ last' = [Idle EXCEPT !.op = "clear", !.dropped = Registrations(heap)]
  /\ subs' = {}
  /\ permanent' = <<>>
  /\ temporary' = <<>>
  /\ listeners' = {}

\* the operation has returned; the caller goes on
Return ==
  /\ last.op # "idle"
  /\ last' = Idle
  /\ UNCHANGED <<heap, subs, symbolVars>>

Next ==
  \/ \E p \in Patterns, h \in Handlers, once \in BOOLEAN : Insert(p, h, once)
  \/ \E p \in Patterns, h \in Handlers \cup {NoHandler} : Remove(p, h)
  \/ \E n \in Names : Call(n)
  \/ Clear
  \/ Return

Spec == Init /\ [][Next]_vars

\* a caller that subscribes and unsubscribes and never emits
NextInsertRemove ==
  \/ \E p \in Patterns, h \in Handlers, once \in BOOLEAN : Insert(p, h, once)
  \/ \E p \in Patterns, h \in Handlers \cup {NoHandler} : Remove(p, h)
  \/ Return

\* the subscriptions that remain after a dispatch of n in which the handlers
\* of fired were invoked under the effect e
SubsAfterCallWith(S, n, e, fired) ==
  {s \in S :
     ~(/\ s.once
       /\ s.handler \in Range(fired)
       /\ \/ Matches(s.pattern, n)
          \/ e.kind = "emit" /\ e.by \in Range(fired) /\ Matches(s.pattern, e.pattern))}
    \cup (IF e.kind = "subscribe" /\ e.by \in Range(fired)
          THEN {Sub(e.pattern, e.handler, e.once)} ELSE {})

\* emit with a string name, the handlers acting as e says
CallWith(n, e) ==
  /\ last.op = "idle"
  /\ \E r \in {callWith(heap, n, e)} :
       /\ heap' = Reachable(r.heap)
       /\ last' = [Idle EXCEPT !.op = "call", !.pattern = n, !.fired = r.fired,
                               !.called = r.called, !.effect = e,
                               !.thrown = r.thrown]
       /\ subs' = SubsAfterCallWith(subs, n, e, r.fired)
  /\ Registrations(heap') <= MaxSubs
  /\ Cardinality(subs') <= MaxSubs
  /\ UNCHANGED symbolVars

\* emit of n while the handler h1 subscribes the handler h2 under q, a
\* pattern that matches n
CallSubscribing(n, q, once) ==
  /\ Matches(normalize(q), n)
  /\ CallWith(n, Subscribes("h1", q, "h2", once))

\* emit while the handler h2 throws
CallThrowing(n) == CallWith(n, Throws("h2"))

\* the patterns under which a running handler subscribes
SubscribedPatterns == {<<"a">>, <<"*">>, <<"a", "*">>, <<"*", "a">>}

\* a caller that subscribes the handler h1, which subscribes h2 when it is
\* invoked
NextSubscribing ==
  \/ \E p \in Patterns, once \in BOOLEAN : Insert(p, "h1", once)
  \/ \E n \in Names, q \in SubscribedPatterns, once \in BOOLEAN :
        CallSubscribing(n, q, once)
  \/ Return

SpecSubscribing == Init /\ [][NextSubscribing]_vars

\* a caller whose handler h2 throws whenever it is invoked
NextThrowing ==
  \/ \E p \in Patterns, h \in Handlers, once \in BOOLEAN : Insert(p, h, once)
  \/ \E n \in Names : CallThrowing(n)
  \/ Return

SpecThrowing == Init /\ [][NextThrowing]_vars

\* emit of n while the handler by emits m the first time it is invoked
CallEmitting(n, by, m) == CallWith(n, Emits(by, m))

\* the patterns and the names of a caller whose handlers emit: patterns that
\* a name matches in one way only
EmittingPatterns == {<<>>, <<"a">>, <<"a", "b">>, <<"a", "*">>, <<"*">>}

EmittedNames == {<<>>, <<"a">>, <<"a", "b">>}

\* a caller one of whose handlers emits when it is invoked
NextEmitting ==
  \/ \E p \in EmittingPatterns, h \in Handlers, once \in BOOLEAN : Insert(p, h, once)
  \/ \E n \in EmittedNames, by \in Handlers, m \in EmittedNames :
        CallEmitting(n, by, m)
  \/ Return

SpecEmitting == Init /\ [][NextEmitting]_vars

\* the most handler registrations of the caller whose handlers emit while
\* three patterns share a prefix
MaxNested == 3

\* patterns that share the prefix "a" along one path of the trie, and the
\* names emitted
NestedPatterns == {<<"a">>, <<"a", "a", "*">>, <<"a", "a", "a">>}

NestedNames == {<<"a">>, <<"a", "a", "a">>}

\* on / once with a string pattern, up to MaxNested registrations
InsertNested(p, h, once) ==
  /\ last.op = "idle"
  /\ heap' = Reachable(insert(heap, p, h, once))
  /\ Registrations(heap') <= MaxNested
  /\ last' = [Idle EXCEPT !.op = "insert", !.pattern = p, !.handler = h, !.once = once]
  /\ subs' = subs \cup {Sub(p, h, once)}
  /\ UNCHANGED symbolVars

\* emit of n while the handler by emits m the first time it is invoked
CallNested(n, by, m) ==
  /\ last.op = "idle"
  /\ \E r \in {callWith(heap, n, Emits(by, m))} :
       /\ heap' = Reachable(r.heap)
       /\ last' = [Idle EXCEPT !.op = "call", !.pattern = n, !.fired = r.fired,
                               !.called = r.called, !.effect = Emits(by, m),
                               !.thrown = r.thrown]
       /\ subs' = SubsAfterCallWith(subs, n, Emits(by, m), r.fired)
  /\ UNCHANGED symbolVars

NextNested ==
  \/ \E p \in NestedPatterns, h \in Handlers, once \in BOOLEAN : InsertNested(p, h, once)
  \/ \E n \in NestedNames, by \in Handlers, m \in NestedNames : CallNested(n, by, m)
  \/ Return

SpecNested == Init /\ [][NextNested]_vars

\* the length of the longest label: one more than the largest value that a
\* cell of the failure table, a Uint8Array cell, holds, plus one
MaxLabel == 257

\* the short labels, and one that is a run of MaxLabel times "a"
ShortLabels ==
  { <<"a">>, <<"a", "a">>, <<"a", "b">>, <<"a", "a", "a">>, <<"a", "b", "a">>,
    <<"a", "a", "b">>, <<"a", "b", "b">>, <<"a", "b", "a", "b">>,
    <<"a", "a", "b", "a", "a">> }

LongLabel == <<>> \o [i \in 1..MaxLabel |-> "a"]

Labels == ShortLabels \cup {LongLabel}

\* the names emitted: each short label, alone, followed by "a", and behind "b"
LabelNames == UNION {{l, l \o <<"a">>, <<"b">> \o l} : l \in ShortLabels}

\* the heap after insert("*" + l, h1, false) into the empty trie, for a label
\* l without "*": the pattern normalizes to itself and splits into "" and l
LabelHeap(l) ==
  Reachable(AddHandler(InsertSegments(EmptyHeap, Root, <<EMPTY, l>>, 1),
                       "permanent", "h1"))

\* the emitter after on("*" + l, h1), for a label l
InitFailure ==
  /\ \E l \in Labels :
       /\ heap = LabelHeap(l)
       /\ last = [Idle EXCEPT !.op = "insert", !.pattern = <<"*">> \o l,
                              !.handler = "h1", !.once = FALSE]
       /\ subs = {[pattern |-> <<"*">> \o l, handler |-> "h1", once |-> FALSE]}
  /\ permanent = <<>>
  /\ temporary = <<>>
  /\ listeners = {}

\* a caller that subscribes the handler h1 to patterns "*" + label and emits,
\* so that the labels are scanned for with their failure tables
NextFailure ==
  \/ \E l \in ShortLabels : Insert(<<"*">> \o l, "h1", FALSE)
  \/ \E n \in LabelNames : Call(n)
  \/ Return

SpecFailure == InitFailure /\ [][NextFailure]_vars

SpecInsertRemove == Init /\ [][NextInsertRemove]_vars

\* a caller that subscribes one-shot handlers and emits, and does nothing else
NextOneShot ==
  \/ \E p \in Patterns, h \in Handlers : Insert(p, h, TRUE)
  \/ \E n \in Names : Call(n)
  \/ Return

SpecOneShot == Init /\ [][NextOneShot]_vars

\* names that hold the character "*", and two that do not
StarNames ==
  { <<>>, <<"a">>, <<"*">>, <<"a", "*">>, <<"*", "a">>, <<"a", "*", "a">>,
    <<"a", "*", "b">> }

\* a caller that subscribes and emits names with the character "*" in them
NextStar ==
  \/ \E p \in Patterns, h \in Handlers, once \in BOOLEAN : Insert(p, h, once)
  \/ \E n \in StarNames : Call(n)
  \/ Return

SpecStar == Init /\ [][NextStar]_vars

-----------------------------------------------------------------------------
(* EventEmitter: symbol keys.  Listeners of a symbol are kept in two Maps   *)
(* from the symbol to a Set of handlers, permanent and temporary.  A Map is *)
(* the sequence of its entries <<key, Set>> and a Set the sequence of its   *)
(* elements, both in insertion order.  listeners is the history of the      *)
(* listeners added to symbols and neither removed nor consumed since.       *)

\* map.has(key)
SymbolHas(map, key) == \E i \in 1..Len(map) : map[i][1] = key

\* map.get(key) ?? []
SymbolGet(map, key) ==
  IF SymbolHas(map, key)
  THEN map[CHOOSE i \in 1..Len(map) : map[i][1] = key][2]
  ELSE <<>>

\* map.set(key, set)
SymbolSet(map, key, set) ==
  IF SymbolHas(map, key)
  THEN [i \in 1..Len(map) |-> IF map[i][1] = key THEN <<key, set>> ELSE map[i]]
  ELSE Append(map, <<key, set>>)

\* a map.delete that deletes nothing
SymbolDeleteNothing(map, key) == map

\* map.delete(key)
SymbolDelete(map, key) == SelectSeq(map, LAMBDA e : e[1] # key)

\* [...map.keys()]
SymbolKeys(map) == [i \in 1..Len(map) |-> map[i][1]]

\* the number of listeners a Map holds
SymbolListeners(map) == SumLen([i \in 1..Len(map) |-> map[i][2]])

\* on / once with a symbol: the Set of the symbol is created with the
\* handler, or the handler is added to it
AddListener(map, pattern, handler) ==
  IF ~SymbolHas(map, pattern) THEN SymbolSet(map, pattern, <<handler>>)
  ELSE IF handler \in Range(SymbolGet(map, pattern)) THEN map
  ELSE SymbolSet(map, pattern, Append(SymbolGet(map, pattern), handler))

\* set.delete(handler) on the Set of the symbol, the entry of the symbol
\* deleted when the Set became empty
DeleteListener(map, pattern, handler) ==
  IF Len(SymbolGet(map, pattern)) > 1
  THEN SymbolSet(map, pattern,
                 SelectSeq(SymbolGet(map, pattern), LAMBDA x : x # handler))
  ELSE SymbolDelete(map, pattern)

\* a listener: a handler under a symbol, one-shot or not
Listener(pattern, handler, once) ==
  [symbol |-> pattern, handler |-> handler, once |-> once]

\* the listeners that remain after off(symbol, handler)
ListenersAfterOff(L, pattern, handler) ==
  IF Listener(pattern, handler, FALSE) \in L
  THEN L \ {Listener(pattern, handler, FALSE)}
  ELSE L \ {Listener(pattern, handler, TRUE)}

\* on(symbol, handler)
OnSymbol(pattern, handler) ==
  /\ last.op = "idle"
  /\ permanent' = AddListener(permanent, pattern, handler)
  /\ SymbolListeners(permanent') + SymbolListeners(temporary) <= MaxListeners
  /\ listeners' = listeners \cup {Listener(pattern, handler, FALSE)}
  /\ last' = [Idle EXCEPT !.op = "on", !.symbol = pattern, !.handler = handler]
  /\ UNCHANGED <<heap, subs, temporary>>

\* once(symbol, handler)
OnceSymbol(pattern, handler) ==
  /\ last.op = "idle"
  /\ temporary' = AddListener(temporary, pattern, handler)
  /\ SymbolListeners(permanent) + SymbolListeners(temporary') <= MaxListeners
  /\ listeners' = listeners \cup {Listener(pattern, handler, TRUE)}
  /\ last' = [Idle EXCEPT !.op = "once", !.symbol = pattern, !.handler = handler,
                          !.once = TRUE]
  /\ UNCHANGED <<heap, subs, permanent>>

\* off(symbol, handler): the handler is deleted from the permanent Set of
\* the symbol, or else from its temporary Set
OffSymbol(pattern, handler) ==
  /\ last.op = "idle"
  /\ IF handler \in Range(SymbolGet(permanent, pattern))
     THEN /\ permanent' = DeleteListener(permanent, pattern, handler)
          /\ temporary' = temporary
     ELSE IF handler \in Range(SymbolGet(temporary, pattern))
          THEN /\ temporary' = DeleteListener(temporary, pattern, handler)
               /\ permanent' = permanent
          ELSE UNCHANGED <<permanent, temporary>>
  /\ listeners' = ListenersAfterOff(listeners, pattern, handler)
  /\ last' = [Idle EXCEPT !.op = "off", !.symbol = pattern, !.handler = handler]
  /\ UNCHANGED <<heap, subs>>

\* emit(symbol): the permanent handlers of the symbol are invoked, then its
\* temporary handlers, and the symbol is deleted from temporary
EmitSymbol(pattern) ==
  /\ last.op = "idle"
  /\ temporary' = SymbolDelete(temporary, pattern)
  /\ listeners' = {l \in listeners : ~(l.symbol = pattern /\ l.once)}
  /\ \E fired \in {SymbolGet(permanent, pattern) \o SymbolGet(temporary, pattern)} :
       last' = [Idle EXCEPT !.op = "emit", !.symbol = pattern, !.fired = fired,
                            !.called = Len(fired) > 0]
  /\ UNCHANGED <<heap, subs, permanent>>

\* removeAllListeners(symbol)
RemoveAllSymbol(pattern) ==
  /\ last.op = "idle"
  /\ permanent' = SymbolDelete(permanent, pattern)
  /\ temporary' = SymbolDelete(temporary, pattern)
  /\ listeners' = {l \in listeners : l.symbol # pattern}
  /\ last' = [Idle EXCEPT !.op = "removeAll", !.symbol = pattern]
  /\ UNCHANGED <<heap, subs>>

\* eventNames(): the keys of permanent, the keys of temporary, the patterns
\* of the trie
eventNames == SymbolKeys(permanent) \o SymbolKeys(temporary) \o patterns(heap)

\* listeners(symbol)
symbolListeners(pattern) ==
  SymbolGet(permanent, pattern) \o SymbolGet(temporary, pattern)

\* the string patterns that the callers of symbol keys subscribe to as well
KeyPatterns == {<<"a">>, <<"a", "*">>}

\* a caller that uses symbol keys and string keys
NextSymbols ==
  \/ \E s \in Symbols, h \in Handlers : OnSymbol(s, h)
  \/ \E s \in Symbols, h \in Handlers : OnceSymbol(s, h)
  \/ \E s \in Symbols, h \in Handlers : OffSymbol(s, h)
  \/ \E s \in Symbols : EmitSymbol(s)
  \/ \E s \in Symbols : RemoveAllSymbol(s)
  \/ \E p \in KeyPatterns, once \in BOOLEAN : Insert(p, "h1", once)
  \/ Clear
  \/ Return

SpecSymbols == Init /\ [][NextSymbols]_vars

-----------------------------------------------------------------------------
(* What a trie holds, read off its structure *)

RECURSIVE Walk(_, _, _)
\* every node the root reaches with the pattern its path spells: the labels
\* along the path, with "*" at each wildcard transition
Walk(H, todo, out) ==
  IF todo = <<>> THEN out
  ELSE LET pattern == Head(todo)[1] \o H.nodes[Head(todo)[2]].pattern
           nd      == H.nodes[Head(todo)[2]]
           kids    == IF nd.children = 0 THEN <<>>
                      ELSE [i \in 1..Len(H.maps[nd.children]) |->
                              <<pattern, H.maps[nd.children][i][2]>>]
           wild    == IF nd.wildcard = 0 THEN <<>>
                      ELSE <<<<pattern \o <<"*">>, nd.wildcard>>>>
       IN  Walk(H, Tail(todo) \o kids \o wild, Append(out, <<pattern, Head(todo)[2]>>))

\* the subscriptions a trie holds
Registered(H) ==
  LET w == Walk(H, <<<<(<<>>), Root>>>>, <<>>)
  IN  UNION { {[pattern |-> w[i][1], handler |-> h, once |-> FALSE] :
                  h \in Range(SetValues(H, H.nodes[w[i][2]].permanent))}
              \cup
              {[pattern |-> w[i][1], handler |-> h, once |-> TRUE] :
                  h \in Range(SetValues(H, H.nodes[w[i][2]].temporary))}
              : i \in 1..Len(w) }

\* the subscriptions of a set whose pattern matches the name n
Matching(S, n) == {s \in S : Matches(s.pattern, n)}

\* how many times handler h occurs in the sequence of invocations f
Count(f, h) == Cardinality({i \in 1..Len(f) : f[i] = h})

-----------------------------------------------------------------------------
(* Dispatch *)

C2_DispatchSound ==
  [][last'.op = "call" =>
       \A h \in Range(last'.fired) :
          \E s \in Matching(Registered(heap), last'.pattern) : s.handler = h]_vars

\* C3: exactly-once firing. In one dispatch of n every handler is invoked as
\* many times as the trie held subscriptions of it whose pattern matches n:
\* once per matching subscription, however many alignments the name has.
C3_ExactlyOnce ==
  [][last'.op = "call" =>
       \A h \in Handlers :
          Count(last'.fired, h) =
            Cardinality({s \in Matching(Registered(heap), last'.pattern) :
                           s.handler = h})]_vars

\* C4: one-shot idempotence. A dispatch invokes no handler all of whose
\* subscriptions have been cancelled or have been one-shots of an earlier
\* matching dispatch: a one-shot that a matching dispatch has consumed is
\* not invoked by a second one.
C4_OneShotSpent ==
  [][last'.op = "call" =>
       \A h \in Range(last'.fired) : \E s \in subs : s.handler = h]_vars

\* C5: the value dispatch returns. It is true exactly when the dispatch
\* invoked a handler, and false for a name no pattern of the trie matches.
C5_CalledIffFired ==
  [][last'.op = "call" =>
       /\ last'.called <=> Len(last'.fired) > 0
       /\ Matching(Registered(heap), last'.pattern) = {} => ~last'.called]_vars

\* C5, its case: a dispatch has returned true, having invoked one one-shot
\* handler, the last the trie held
C5_Witness ==
  /\ last.op = "call"
  /\ last.called
  /\ last.fired = <<"h1">>
  /\ Registered(heap) = {}
  /\ subs = {}

-----------------------------------------------------------------------------
(* Insert and remove *)

\* the node at which the pattern p ends in the trie, by the path it spells
\* (0 when no node spells it), and the handlers of both kinds held there
NodeOf(H, p) ==
  LET w == Walk(H, <<<<(<<>>), Root>>>>, <<>>)
  IN  IF \E i \in 1..Len(w) : w[i][1] = p
      THEN w[CHOOSE i \in 1..Len(w) : w[i][1] = p][2]
      ELSE 0

PermanentAt(H, p) ==
  IF NodeOf(H, p) = 0 THEN <<>> ELSE SetValues(H, H.nodes[NodeOf(H, p)].permanent)

TemporaryAt(H, p) ==
  IF NodeOf(H, p) = 0 THEN <<>> ELSE SetValues(H, H.nodes[NodeOf(H, p)].temporary)

\* the sequence f without the handler h
Without(f, h) == SelectSeq(f, LAMBDA x : x # h)

\* C6: immediately after insert(p, h, oneshot), handlers(p) yields h and
\* handlersCount(p) is at least 1.
C6_InsertedIsListed ==
  last.op = "insert" =>
    /\ last.handler \in Range(handlers(heap, last.pattern))
    /\ handlersCount(heap, last.pattern) >= 1

\* C6, its case: an insert under a pattern with a repeated wildcard into a
\* trie that already held another subscription
C6_Witness ==
  /\ last.op = "insert"
  /\ last.pattern = <<"a", "*", "*">>
  /\ Cardinality(Registered(heap)) = 2

\* C7 as claimed: after remove(p, h), handlers(p) does not yield h, whether
\* h was a permanent handler of p, a one-shot handler of p, or both.
C7_RemovedIsGone ==
  (last.op = "remove" /\ last.handler # NoHandler) =>
    last.handler \notin Range(handlers(heap, last.pattern))

\* C7 as amended: remove(p, h) cancels one registration of h under p, the
\* permanent one first. If h was a permanent handler of p, the permanent
\* handlers of p lose h and its one-shot handlers are untouched; otherwise
\* its one-shot handlers lose h. So handlers(p) no longer yields h unless h
\* was registered under p as both, and then h stays as a one-shot handler.
\* A dispatch invokes only handlers that the trie holds, so h, once held
\* nowhere, is not invoked.
C7_RemoveCancelsOne ==
  [][/\ (last'.op = "remove" /\ last'.handler # NoHandler) =>
          LET p    == normalize(last'.pattern)
              h    == last'.handler
              perm == PermanentAt(heap, p)
              temp == TemporaryAt(heap, p)
          IN  /\ handlers(heap', last'.pattern) =
                   PermanentAt(heap', p) \o TemporaryAt(heap', p)
              /\ IF h \in Range(perm)
                 THEN /\ PermanentAt(heap', p) = Without(perm, h)
                      /\ TemporaryAt(heap', p) = temp
                 ELSE /\ PermanentAt(heap', p) = perm
                      /\ TemporaryAt(heap', p) = Without(temp, h)
     /\ last'.op = "call" =>
          Range(last'.fired) \subseteq {s.handler : s \in Registered(heap)}]_vars

\* C7, its case: a remove of a handler that was registered under the pattern
\* as both has left it registered as a one-shot
C7_Witness ==
  /\ last.op = "remove"
  /\ last.handler = "h1"
  /\ Registered(heap) = {[pattern |-> normalize(last.pattern), handler |-> "h1",
                          once |-> TRUE]}
  /\ subs = Registered(heap)

\* C8: remove(p, h) is a no-op when the trie holds no subscription under the
\* normalized p (for h, when h is given): the trie is left as it was (so
\* that every later dispatch behaves as before), and so are patterns() and
\* handlers(q) for every q.
C8_RemoveNoOp ==
  [][(/\ last'.op = "remove"
      /\ ~\E s \in Registered(heap) :
            /\ s.pattern = normalize(last'.pattern)
            /\ last'.handler \in {NoHandler, s.handler})
       => /\ heap' = heap
          /\ patterns(heap') = patterns(heap)
          /\ \A q \in Patterns : handlers(heap', q) = handlers(heap, q)]_vars

\* C8, its case: remove("a") has returned on a trie whose node "a" holds no
\* handler, only the paths of two longer patterns
C8_Witness ==
  /\ last.op = "remove"
  /\ last.pattern = <<"a">>
  /\ {s.pattern : s \in Registered(heap)} = {<<"a", "a">>, <<"a", "*", "a">>}

\* C9: remove(p) without a handler cancels every permanent and one-shot
\* handler of the normalized p and no subscription of any other pattern.
C9_RemoveAll ==
  [][(last'.op = "remove" /\ last'.handler = NoHandler) =>
       /\ handlersCount(heap', last'.pattern) = 0
       /\ Registered(heap') =
            {s \in Registered(heap) : s.pattern # normalize(last'.pattern)}
       /\ \A q \in Patterns :
            normalize(q) # normalize(last'.pattern)
              => handlers(heap', q) = handlers(heap, q)]_vars

\* C9, its case: remove("a*") has left a pattern that extends it
C9_Witness ==
  /\ last.op = "remove"
  /\ last.handler = NoHandler
  /\ normalize(last.pattern) = <<"a", "*">>
  /\ {s.pattern : s \in Registered(heap)} = {<<"a", "*", "a">>}
  /\ Cardinality(subs) = 1

\* the observations that tell a trie from the empty one
LooksEmpty(H) ==
  /\ patterns(H) = <<>>
  /\ \A q \in Patterns : handlersCount(H, q) = 0
  /\ \A n \in Names : ~call(H, n).called /\ call(H, n).fired = <<>>
  /\ isEmpty(H, Root)

\* C10: round trip from the empty trie. remove(p, h) right after
\* insert(p, h, oneshot = false) into the empty trie leaves a trie that no
\* operation tells from the empty one.
C10_RoundTrip ==
  [][(/\ last'.op = "remove"
      /\ last'.handler # NoHandler
      /\ heap = Reachable(insert(EmptyHeap, last'.pattern, last'.handler, FALSE)))
       => LooksEmpty(heap') /\ heap' = EmptyHeap]_vars

\* C10, its case: a remove of a handler under a pattern with two wildcards
\* has emptied the trie
C10_Witness ==
  /\ last.op = "remove"
  /\ last.handler = "h2"
  /\ last.pattern = <<"*", "a", "*">>
  /\ heap = EmptyHeap
  /\ subs = {}

-----------------------------------------------------------------------------
(* The shape of the trie *)

\* C11: remove symmetry. When patterns have been inserted into the empty
\* trie and every one of them has been removed again, in whatever order,
\* the root is empty: it has no literal children, no wildcard child and no
\* handlers.
C11_RemoveSymmetry ==
  subs = {} => isEmpty(heap, Root) /\ heap = EmptyHeap

\* C11, its case: remove("*ab") without a handler has removed the last of the
\* patterns inserted and left the root empty
C11_Witness ==
  /\ last.op = "remove"
  /\ last.handler = NoHandler
  /\ last.pattern = <<"*", "a", "b">>
  /\ subs = {}
  /\ isEmpty(heap, Root)

\* C12: one-shot drain. Into a trie that was empty only one-shot
\* subscriptions are inserted, each with a handler of its own; a dispatch
\* that invokes the handler of every subscription the trie still holds, the
\* others having been invoked by earlier dispatches, leaves the root empty:
\* no literal children, no wildcard child, no handlers.
C12_OneShotDrain ==
  [][(/\ last'.op = "call"
      /\ \A s, t \in Registered(heap) : s.handler = t.handler => s = t
      /\ \A s \in Registered(heap) : s.handler \in Range(last'.fired))
       => isEmpty(heap', Root)]_vars

-----------------------------------------------------------------------------
(* Normalization *)

\* pairs <<p, q>>: p has runs of "*" and q is p with every run collapsed to
\* one "*"
StarRuns ==
  { << <<"a", "*", "*", "a">>, <<"a", "*", "a">> >>,
    << <<"*", "*", "a">>, <<"*", "a">> >>,
    << <<"*", "*", "a", "*", "*", "*">>, <<"*", "a", "*">> >>,
    << <<"a", "*", "*", "*">>, <<"a", "*">> >> }

\* C13: normalization. normalize collapses every run of "*" to one "*" and
\* leaves a normalized pattern as it is; insert, remove, handlers and
\* handlersCount do to the trie under a pattern with runs of "*" what they do
\* under the collapsed pattern, so the same handler inserted under both sits
\* once at one terminal node and is counted once.
C13_Normalization ==
  \A pq \in StarRuns :
    LET p == pq[1]
        q == pq[2]
    IN  /\ normalize(p) = q
        /\ normalize(q) = q
        /\ handlers(heap, p) = handlers(heap, q)
        /\ handlersCount(heap, p) = handlersCount(heap, q)
        /\ \A h \in Handlers \cup {NoHandler} : remove(heap, p, h) = remove(heap, q, h)
        /\ \A h \in Handlers, once \in BOOLEAN :
              /\ insert(heap, p, h, once) = insert(heap, q, h, once)
              /\ insert(insert(heap, p, h, once), q, h, once) = insert(heap, p, h, once)
              /\ heap = EmptyHeap =>
                    handlersCount(insert(insert(heap, p, h, once), q, h, once), q) = 1

\* C13, its case: an insert under "a**" has put its handler where "a*" finds
\* it, the only handler there
C13_Witness ==
  /\ last.op = "insert"
  /\ last.pattern = <<"a", "*", "*">>
  /\ last.handler = "h1"
  /\ handlers(heap, <<"a", "*">>) = <<"h1">>
  /\ handlersCount(heap, <<"a", "*", "*", "*">>) = 1

-----------------------------------------------------------------------------
(* Invariants of the trie *)

\* the nodes other than the root
NonRoot(H) == (1..Len(H.nodes)) \ {Root}

\* the entries <<key, child>> of the children of node n
Entries(H, n) == IF H.nodes[n].children = 0 THEN <<>> ELSE H.maps[H.nodes[n].children]

\* node n holds a handler, permanent or one-shot
HoldsHandler(H, n) ==
  SetSize(H, H.nodes[n].permanent) > 0 \/ SetSize(H, H.nodes[n].temporary) > 0

\* C14 as claimed: storage invariant. After any sequence of insert, remove,
\* dispatch and clear, every node other than the root holds a handler, or
\* has a wildcard child, or does not have exactly one literal child.
C14_Storage ==
  \A n \in NonRoot(heap) :
    \/ HoldsHandler(heap, n)
    \/ heap.nodes[n].wildcard # 0
    \/ Len(Entries(heap, n)) # 1

\* C14 as amended: the storage invariant is that of the nodes with a label.
\* After any sequence of insert, remove, dispatch and clear, every node whose
\* label is not empty holds a handler, or has a wildcard child, or does not
\* have exactly one literal child. The nodes with the empty label, which
\* are the root and the wildcard children, are never merged with a child
\* and may have one literal child and nothing else.
C14_StorageLabelled ==
  /\ \A n \in 1..Len(heap.nodes) :
        heap.nodes[n].pattern # EMPTY =>
          \/ HoldsHandler(heap, n)
          \/ heap.nodes[n].wildcard # 0
          \/ Len(Entries(heap, n)) # 1
  /\ \A n \in 1..Len(heap.nodes) :
        heap.nodes[n].pattern = EMPTY =>
          n = Root \/ \E m \in 1..Len(heap.nodes) : heap.nodes[m].wildcard = n

\* C14, its case: a dispatch has consumed the one-shot of an inner node that
\* had one literal child, and the node was merged with that child
C14_Witness ==
  /\ last.op = "call"
  /\ last.pattern = <<"a">>
  /\ last.fired = <<"h1">>
  /\ Registered(heap) = {[pattern |-> <<"a", "a">>, handler |-> "h2", once |-> FALSE]}
  /\ Len(heap.nodes) = 2
  /\ \E n \in NonRoot(heap) : heap.nodes[n].pattern = <<"a", "a">>

\* C15: key invariant. In every reachable state every entry (k, C) of every
\* children map has k equal to the first character of the label of C.
C15_Key ==
  \A n \in 1..Len(heap.nodes) :
    \A i \in 1..Len(Entries(heap, n)) :
      LET e == Entries(heap, n)[i]
      IN  /\ heap.nodes[e[2]].pattern # EMPTY
          /\ e[1] = CharAt(heap.nodes[e[2]].pattern, 0)

\* C15, its case: remove("ab") has merged the node "a" with the child "a"
\* left to it, and the root finds the merged node "aa" under the key "a"
C15_Witness ==
  /\ last.op = "remove"
  /\ last.pattern = <<"a", "b">>
  /\ Len(Entries(heap, Root)) = 1
  /\ Entries(heap, Root)[1][1] = <<"a">>
  /\ heap.nodes[Entries(heap, Root)[1][2]].pattern = <<"a", "a">>

\* C16: label invariant. In every reachable state no label of a node has the
\* character "*" in it; the wildcards of the patterns stored are wildcard
\* child pointers.
C16_Label ==
  \A n \in 1..Len(heap.nodes) :
    \A i \in 1..Len(heap.nodes[n].pattern) : heap.nodes[n].pattern[i] # "*"

\* C16, its case: the trie holds a pattern with two wildcards, as two
\* wildcard child pointers along its path
C16_Witness ==
  /\ last.op = "insert"
  /\ last.pattern = <<"*", "a", "*">>
  /\ heap.nodes[Root].wildcard # 0
  /\ \E n \in NonRoot(heap) : heap.nodes[n].pattern = <<"a">> /\ heap.nodes[n].wildcard # 0

-----------------------------------------------------------------------------
(* Handlers that act during a dispatch *)

\* C17: re-entrant subscription. When a handler running inside the dispatch
\* of n subscribes a handler, held nowhere in the trie before, under a
\* pattern that matches n, that dispatch does not invoke the new handler; it
\* is registered when the dispatch returns, for the next matching dispatch.
C17_NotInSameDispatch ==
  [][(/\ last'.op = "call"
      /\ last'.effect.kind = "subscribe"
      /\ last'.effect.by \in Range(last'.fired)
      /\ Matches(normalize(last'.effect.pattern), last'.pattern)
      /\ \A s \in Registered(heap) : s.handler # last'.effect.handler)
       => /\ last'.effect.handler \notin Range(last'.fired)
          /\ Sub(last'.effect.pattern, last'.effect.handler, last'.effect.once)
                \in Registered(heap')]_vars

\* C18: handler failure. When a handler throws during the dispatch of n,
\* every one-shot subscription whose handler that dispatch had invoked
\* before, and which was the only subscription of that handler, is no longer
\* registered in the state left behind, and the storage, key and label
\* invariants hold in that state.
C18_ThrowConsumes ==
  [][(last'.op = "call" /\ last'.thrown) =>
       \A s \in Registered(heap) :
          (/\ s.once
           /\ s.handler # last'.effect.by
           /\ s.handler \in Range(last'.fired)
           /\ \A t \in Registered(heap) : t.handler = s.handler => t = s)
            => s \notin Registered(heap')]_vars

-----------------------------------------------------------------------------
(* Enumeration and lookup *)

\* C19: patterns() yields each normalized pattern that has a handler,
\* permanent or one-shot, once and no other pattern: the labels along the
\* path with "*" at every wildcard transition. It yields nothing on the
\* empty trie, and no pattern all of whose handlers have been removed or
\* have been one-shots that a dispatch consumed.
C19_PatternsExact ==
  /\ Range(patterns(heap)) = {s.pattern : s \in Registered(heap)}
  /\ Len(patterns(heap)) = Cardinality(Range(patterns(heap)))
  /\ \A q \in Patterns :
        handlersCount(heap, q) >= 1 <=> normalize(q) \in Range(patterns(heap))
  /\ heap = EmptyHeap => patterns(heap) = <<>>
  /\ Range(patterns(heap)) \subseteq {s.pattern : s \in subs}

\* C20: handlers(p) and handlersCount(p) look up the normalized p itself.
\* handlers(p) yields the permanent handlers registered under it and then
\* its one-shot handlers, no handler of another pattern whose language
\* overlaps, and nothing when p is not registered; handlersCount(p) is the
\* number of handlers that handlers(p) yields.
C20_ExactLookup ==
  \A R \in {Registered(heap)} : \A q \in Patterns :
    \A p \in {normalize(q)} :
      \A perm \in {PermanentAt(heap, p)}, temp \in {TemporaryAt(heap, p)} :
        /\ handlers(heap, q) = perm \o temp
        /\ Range(perm) = {s.handler : s \in {t \in R : t.pattern = p /\ ~t.once}}
        /\ Range(temp) = {s.handler : s \in {t \in R : t.pattern = p /\ t.once}}
        /\ handlersCount(heap, q) = Len(perm) + Len(temp)
        /\ handlersCount(heap, q) = Cardinality({s \in R : s.pattern = p})
        /\ (~\E s \in R : s.pattern = p) =>
             handlers(heap, q) = <<>> /\ handlersCount(heap, q) = 0

\* C20, its case: the trie holds h1 under "*a*" and h2, a one-shot handler,
\* under "a", which "*a*" matches; the lookup of "a" yields h2 alone, the
\* lookup of "*a*" yields h1 alone, and the lookup of "*" yields nothing
C20_Witness ==
  /\ last.op = "insert"
  /\ Registered(heap) =
       { [pattern |-> <<"*", "a", "*">>, handler |-> "h1", once |-> FALSE],
         [pattern |-> <<"a">>, handler |-> "h2", once |-> TRUE] }
  /\ handlers(heap, <<"a">>) = <<"h2">>
  /\ handlers(heap, <<"*", "a", "*">>) = <<"h1">>
  /\ handlersCount(heap, <<"*">>) = 0

-----------------------------------------------------------------------------
(* Reset, the matching relation, order *)

\* C21: clear() resets the trie from any state. Once clear has returned,
\* patterns() yields nothing, handlersCount(p) is 0 for every pattern p, and
\* a dispatch of any name returns false and invokes no handler.
C21_ClearResets ==
  last.op = "clear" =>
    /\ patterns(heap) = <<>>
    /\ \A p \in Patterns : handlersCount(heap, p) = 0 /\ handlers(heap, p) = <<>>
    /\ \A n \in Names :
         \A r \in {call(heap, n)} : ~r.called /\ r.fired = <<>>

\* C21, its case: clear has returned, having dropped two registrations
C21_Witness ==
  /\ last.op = "clear"
  /\ last.dropped = 2
  /\ heap = EmptyHeap
  /\ subs = {}

\* C22: the empty pattern matches the empty name only. A handler that the
\* trie holds under "" is invoked by a dispatch of "", and a handler that
\* the trie holds under "" and under no other pattern is invoked by no
\* dispatch of a non-empty name, whatever else is registered.
C22_EmptyPattern ==
  [][last'.op = "call" =>
       \A R \in {Registered(heap)} :
         \A s \in R :
           s.pattern = <<>> =>
             /\ last'.pattern = <<>> => s.handler \in Range(last'.fired)
             /\ (/\ last'.pattern # <<>>
                 /\ \A t \in R : t.handler = s.handler => t.pattern = <<>>)
                  => s.handler \notin Range(last'.fired)]_vars

\* C22, its case: a dispatch of "a" has invoked the handler of "*" and left
\* alone the handler h1 that the root holds for ""
C22_Witness ==
  /\ last.op = "call"
  /\ last.pattern = <<"a">>
  /\ last.fired = <<"h2">>
  /\ handlers(heap, <<>>) = <<"h1">>
  /\ handlers(heap, <<"*">>) = <<"h2">>

\* the name n with a character that no pattern holds in the place of each "*"
Unstar(n) == [i \in 1..Len(n) |-> IF n[i] = "*" THEN "z" ELSE n[i]]

\* C23: the pattern "*" matches every name, and "*" in a name is an ordinary
\* character. Every dispatch, of the empty name, of the name "*" and of names
\* that other patterns match too, invokes every handler the trie holds under
\* "*". A "*" of the emitted name is matched by no literal of a stored
\* pattern: the dispatch does what the dispatch of the same name with a
\* foreign character in the place of each "*" does, and a dispatch of the
\* name "*" invokes only handlers held under the pattern "*".
C23_Star ==
  [][last'.op = "call" =>
       \A R \in {Registered(heap)} :
          /\ \A s \in R : s.pattern = <<"*">> => s.handler \in Range(last'.fired)
          /\ \A r \in {call(heap, Unstar(last'.pattern))} :
                /\ last'.fired = r.fired
                /\ last'.called = r.called
                /\ heap' = Reachable(r.heap)
          /\ last'.pattern = <<"*">> =>
                \A h \in Range(last'.fired) :
                   \E s \in R : s.handler = h /\ s.pattern = <<"*">>]_vars

\* C23, its case: a dispatch of "a*" has invoked the handler of "*" and not
\* the handler of "aa", and the trie still holds both
C23_Witness ==
  /\ last.op = "call"
  /\ last.pattern = <<"a", "*">>
  /\ last.fired = <<"h1">>
  /\ handlers(heap, <<"*">>) = <<"h1">>
  /\ handlers(heap, <<"a", "a">>) = <<"h2">>

\* the number of wildcards in the pattern p
Stars(p) == Cardinality({i \in 1..Len(p) : p[i] = "*"})

\* C24: literal segments match disjoint, ordered portions of the name. For a
\* pattern L0*L1 that the trie holds, a dispatch of n invokes its handler
\* when n starts with L0 and what follows L0 ends with L1 (the wildcard may
\* take the empty run), and, the handler being held under no other pattern,
\* only then: a character of the name never serves both segments.
C24_Segments ==
  [][last'.op = "call" =>
       \A R \in {Registered(heap)} :
         \A s \in R :
           Stars(s.pattern) = 1 =>
             /\ Matches(s.pattern, last'.pattern) => s.handler \in Range(last'.fired)
             /\ (/\ ~Matches(s.pattern, last'.pattern)
                 /\ \A t \in R : t.handler = s.handler => t = s)
                  => s.handler \notin Range(last'.fired)]_vars

\* the handlers f with h added as a Set adds it: last, unless f has it
Added(f, h) == IF h \in Range(f) THEN f ELSE Append(f, h)

\* the invocations of f that are invocations of a handler of L
Among(f, L) == SelectSeq(f, LAMBDA x : x \in Range(L))

\* C25: order within a pattern. An insert puts its handler behind the
\* handlers of the same kind that the pattern already holds and moves none
\* of them; a matching dispatch invokes the handlers of one pattern (none of
\* them held under another pattern) in that order, the permanent handlers
\* before the one-shot handlers: its invocations of them begin with the
\* permanent handlers in their order, followed by the one-shot handlers in
\* theirs.
C25_Order ==
  [][/\ last'.op = "insert" =>
         \A q \in {normalize(last'.pattern)} :
            IF last'.once
            THEN /\ TemporaryAt(heap', q) = Added(TemporaryAt(heap, q), last'.handler)
                 /\ PermanentAt(heap', q) = PermanentAt(heap, q)
            ELSE /\ PermanentAt(heap', q) = Added(PermanentAt(heap, q), last'.handler)
                 /\ TemporaryAt(heap', q) = TemporaryAt(heap, q)
     /\ last'.op = "call" =>
         \A R \in {Registered(heap)} :
           \A s \in R :
             \A L \in {PermanentAt(heap, s.pattern) \o TemporaryAt(heap, s.pattern)} :
               (/\ Matches(s.pattern, last'.pattern)
                /\ \A t \in R : t.handler \in Range(L) => t.pattern = s.pattern)
                 => \A F \in {Among(last'.fired, L)} :
                      /\ Len(F) >= Len(L)
                      /\ SubSeq(F, 1, Len(L)) = L]_vars

\* C25, its case: h2 was subscribed to "a*a" before h1, and a dispatch of
\* "aa" has invoked h2 and then h1
C25_Witness ==
  /\ last.op = "call"
  /\ last.pattern = <<"a", "a">>
  /\ last.fired = <<"h2", "h1">>
  /\ PermanentAt(heap, <<"a", "*", "a">>) = <<"h2", "h1">>

\* C25, its other case: the one-shot handler h1 was subscribed to "a" and
\* then the permanent handler h2, and a dispatch of "a" has invoked h2 first
C25_WitnessKinds ==
  /\ last.op = "call"
  /\ last.pattern = <<"a">>
  /\ last.fired = <<"h2", "h1">>
  /\ PermanentAt(heap, <<"a">>) = <<"h2">>
  /\ subs = {Sub(<<"a">>, "h2", FALSE)}

-----------------------------------------------------------------------------
(* Symbol keys *)

\* C26: eventNames() lists every event that has a listener exactly once. Its
\* length is the number of distinct events with a listener, symbols and
\* normalized string patterns together, and no symbol is listed twice, also
\* when a symbol has an on-listener and a once-listener.
C26_EventNames ==
  /\ Len(eventNames) =
       Cardinality({l.symbol : l \in listeners})
         + Cardinality({s.pattern : s \in subs})
  /\ \A K \in {SymbolKeys(permanent) \o SymbolKeys(temporary)} :
       \A l \in listeners :
         Cardinality({i \in 1..Len(K) : K[i] = l.symbol}) = 1
  /\ \A s \in subs :
       Cardinality({i \in 1..Len(patterns(heap)) :
                      patterns(heap)[i] = s.pattern}) = 1

\* C27: listeners of a symbol. An emit of the symbol S invokes each handler
\* once for every listener that S has at that time: a once-listener from its
\* registration to the first emit of S, which consumes it, an on-listener
\* from its registration to its off. It invokes no handler for the listeners
\* of another symbol, and returns true exactly when it invoked one.
C27_SymbolListeners ==
  [][last'.op = "emit" =>
       /\ \A h \in Handlers :
            Count(last'.fired, h) =
              Cardinality({l \in listeners :
                             l.symbol = last'.symbol /\ l.handler = h})
       /\ last'.called <=> (\E l \in listeners : l.symbol = last'.symbol)
       /\ \A l \in listeners' : ~(l.symbol = last'.symbol /\ l.once)
       /\ \A s \in Symbols \ {last'.symbol} :
            /\ SymbolGet(permanent', s) = SymbolGet(permanent, s)
            /\ SymbolGet(temporary', s) = SymbolGet(temporary, s)]_vars

\* C27, its case: an emit of s1 has invoked the on-listener h2 and then the
\* once-listener h1, which is consumed, and has left alone the once-listener
\* that h1 has under s2
C27_Witness ==
  /\ last.op = "emit"
  /\ last.symbol = "s1"
  /\ last.fired = <<"h2", "h1">>
  /\ listeners = {Listener("s1", "h2", FALSE), Listener("s2", "h1", TRUE)}
  /\ temporary = << <<"s2", <<"h1">> >> >>

-----------------------------------------------------------------------------
(* Re-entrant dispatch, frames *)

\* C28: a one-shot is invoked at most once, re-entrant dispatch included.
\* When a handler of a running dispatch emits a name, the handler of a
\* one-shot subscription (held under that subscription only) is invoked at
\* most once by the outer and the nested dispatch together.
C28_OneShotOnceReentrant ==
  [][(last'.op = "call" /\ last'.effect.kind = "emit") =>
       \A R \in {Registered(heap)} :
         \A s \in R :
           (s.once /\ \A t \in R : t.handler = s.handler => t = s)
             => Count(last'.fired, s.handler) <= 1]_vars

\* C29: frame of dispatch. A dispatch of n removes only one-shot
\* subscriptions whose pattern matches n: the permanent handlers of every
\* pattern are what they were, handlers(q) is what it was for every pattern
\* q that does not match n, and the subscriptions the trie holds afterwards
\* are subscriptions it held before, none dropped but matching one-shots.
C29_DispatchFrame ==
  [][last'.op = "call" =>
       /\ \A q \in Patterns :
            /\ PermanentAt(heap', normalize(q)) = PermanentAt(heap, normalize(q))
            /\ ~Matches(normalize(q), last'.pattern)
                 => handlers(heap', q) = handlers(heap, q)
       /\ \A R \in {Registered(heap)}, Q \in {Registered(heap')} :
            /\ Q \subseteq R
            /\ \A s \in R \ Q : s.once /\ Matches(s.pattern, last'.pattern)]_vars

\* C30: frame of insert. insert(p, h, oneshot) changes handlers(q) for no
\* pattern q other than the normalized p and adds the one subscription to
\* the trie; a dispatch of any name invokes afterwards what it invoked
\* before, and in addition h if p matches the name: every other handler as
\* many times as before, h as before for a name that p does not match.
C30_InsertFrame ==
  [][last'.op = "insert" =>
       /\ \A q \in Patterns :
            normalize(q) # normalize(last'.pattern)
              => handlers(heap', q) = handlers(heap, q)
       /\ Registered(heap') =
            Registered(heap) \cup {Sub(last'.pattern, last'.handler, last'.once)}
       /\ \A n \in Names :
            \A before \in {call(heap, n)}, after \in {call(heap', n)} :
              /\ \A g \in Handlers \ {last'.handler} :
                   Count(after.fired, g) = Count(before.fired, g)
              /\ Count(after.fired, last'.handler) >= Count(before.fired, last'.handler)
              /\ ~Matches(normalize(last'.pattern), n)
                   => /\ Count(after.fired, last'.handler)
                           = Count(before.fired, last'.handler)
                      /\ after.called = before.called]_vars

-----------------------------------------------------------------------------
(* The structure of the trie *)

\* the structure of a trie: for every node the root reaches, the pattern its
\* path spells, its label, the keys of its children, whether it has a
\* wildcard child, and the handlers of its two sets
Shape(H) ==
  LET w == Walk(H, <<<<(<<>>), Root>>>>, <<>>)
  IN  { [path      |-> w[i][1],
         label     |-> H.nodes[w[i][2]].pattern,
         keys      |-> IF H.nodes[w[i][2]].children = 0 THEN {}
                       ELSE {e[1] : e \in Range(H.maps[H.nodes[w[i][2]].children])},
         wildcard  |-> H.nodes[w[i][2]].wildcard # 0,
         permanent |-> Range(SetValues(H, H.nodes[w[i][2]].permanent)),
         temporary |-> Range(SetValues(H, H.nodes[w[i][2]].temporary))]
        : i \in 1..Len(w) }

\* the orders in which the subscriptions of S can be made
Orders(S) ==
  {f \in [1..Cardinality(S) -> S] : \A i, j \in 1..Cardinality(S) : f[i] = f[j] => i = j}

RECURSIVE Build(_, _)
\* the trie that the first k inserts of f make of the empty trie
Build(f, k) ==
  IF k = 0 THEN EmptyHeap
  ELSE Reachable(insert(Build(f, k - 1), f[k].pattern, f[k].handler, f[k].once))

\* the trie has the structure of the trie that the inserts of its
\* subscriptions, in any order, make of the empty trie
CanonicalShape ==
  \A R \in {Registered(heap)} :
    \A f \in Orders(R) : Shape(Build(f, Cardinality(R))) = Shape(heap)

\* a step that inserts a handler not yet under its pattern is undone by the
\* remove of that handler: the trie is again the one before the step
InsertUndone ==
  (/\ last'.op = "insert"
   /\ last'.handler \notin Range(handlers(heap, last'.pattern)))
    => Reachable(remove(heap', last'.pattern, last'.handler)) = heap

\* C31: canonical shape. After any sequence of inserts and removes the trie
\* has the structure (labels, children keys, wildcard pointers, handler
\* sets) of the trie that the inserts of the surviving subscriptions, in any
\* order, make of the empty trie; and an insert of a handler not yet under
\* its pattern followed by the remove of it gives back the trie as it was.
C31_Canonical == []CanonicalShape /\ [][InsertUndone]_vars

\* C31, its case: a remove has merged the node "a" with its child "b", and
\* the trie is the one that the insert of "ab" makes of the empty trie
C31_Witness ==
  /\ last.op = "remove"
  /\ last.pattern = <<"a", "a">>
  /\ Registered(heap) = {Sub(<<"a", "b">>, "h1", FALSE)}
  /\ heap = Reachable(insert(EmptyHeap, <<"a", "b">>, "h1", FALSE))

-----------------------------------------------------------------------------
(* The two phases of a dispatch *)

\* the skeleton of a trie: its structure without the handlers
Skeleton(H) ==
  {[path |-> x.path, label |-> x.label, keys |-> x.keys, wildcard |-> x.wildcard]
     : x \in Shape(H)}

\* C32: two-phase dispatch. Structural cleanup (detaching an empty wildcard
\* child, deleting an empty literal child, merging by shrink) takes place
\* only after all handlers of the dispatch have been called: at the moment a
\* handler is invoked, which the trie left behind by a handler that throws
\* shows, the trie has the nodes, labels, children and wildcard children it
\* had when the dispatch began.
C32_TwoPhase ==
  [][(last'.op = "call" /\ last'.thrown) => Skeleton(heap') = Skeleton(heap)]_vars

-----------------------------------------------------------------------------
(* HandlerNode.remove and HandlerNode.shrink on the nodes of the trie *)

\* the heaps H and G agree on every node but n, and on n in the fields
\* other than its two handler sets
SameBut(H, G, n) ==
  /\ Len(G.nodes) = Len(H.nodes)
  /\ G.maps = H.maps
  /\ \A m \in (1..Len(H.nodes)) \ {n} :
       /\ G.nodes[m] = H.nodes[m]
       /\ SetValues(G, G.nodes[m].permanent) = SetValues(H, H.nodes[m].permanent)
       /\ SetValues(G, G.nodes[m].temporary) = SetValues(H, H.nodes[m].temporary)
  /\ \A f \in {"pattern", "children", "wildcard", "failure"} :
       G.nodes[n][f] = H.nodes[n][f]

\* the handlers of the set that field f of node n refers to, and whether the
\* field is null exactly when there are none
Held(H, n, f) == SetValues(H, H.nodes[n][f])

NullIfEmpty(H, n, f) == (H.nodes[n][f] = 0) <=> (Held(H, n, f) = <<>>)

\* C33: HandlerNode.remove(h) looks in the permanent set first: if h is
\* there it is deleted from it and the one-shot set is not touched; else if
\* h is in the one-shot set it is deleted from that; the call returns true
\* in both cases, and returns false and changes nothing exactly when h is in
\* neither set; a set emptied by the deletion is replaced by null.
C33_NodeRemove ==
  \A n \in 1..Len(heap.nodes), h \in Handlers :
    \A r \in {removeHandler(heap, n, h)} :
      /\ SameBut(heap, r.heap, n)
      /\ NullIfEmpty(r.heap, n, "permanent")
      /\ NullIfEmpty(r.heap, n, "temporary")
      /\ IF h \in Range(Held(heap, n, "permanent"))
         THEN /\ r.ret
              /\ Held(r.heap, n, "permanent") = Without(Held(heap, n, "permanent"), h)
              /\ r.heap.nodes[n].temporary = heap.nodes[n].temporary
              /\ Held(r.heap, n, "temporary") = Held(heap, n, "temporary")
         ELSE IF h \in Range(Held(heap, n, "temporary"))
         THEN /\ r.ret
              /\ Held(r.heap, n, "temporary") = Without(Held(heap, n, "temporary"), h)
              /\ r.heap.nodes[n].permanent = heap.nodes[n].permanent
              /\ Held(r.heap, n, "permanent") = Held(heap, n, "permanent")
         ELSE ~r.ret /\ r.heap = heap

\* C33, its case: remove(p, h1) has acted on a node that held h1 in both
\* sets, and h1 is still a one-shot handler of the pattern
C33_Witness ==
  /\ last.op = "remove"
  /\ last.handler = "h1"
  /\ TemporaryAt(heap, normalize(last.pattern)) = <<"h1">>
  /\ PermanentAt(heap, normalize(last.pattern)) = <<>>

\* what shrink() does at node m of the heap G: it keeps the subscriptions
\* stored; it returns false and changes nothing at a node that holds a
\* handler, has a wildcard child or has two or more literal children; it
\* changes nothing at a node with the empty label; and when it changes the
\* heap, node m gets the label of m followed by that of its only child c and
\* c's children, wildcard child and handler sets, and nothing else changes
ShrinkFrame(G, m) ==
  \A r \in {shrink(G, m)} :
    /\ Registered(r.heap) = Registered(G)
    /\ (HoldsHandler(G, m) \/ G.nodes[m].wildcard # 0 \/ Len(Entries(G, m)) >= 2)
         => ~r.ret /\ r.heap = G
    /\ G.nodes[m].pattern = EMPTY => r.heap = G
    /\ r.heap # G =>
         /\ r.ret
         /\ Len(Entries(G, m)) = 1
         /\ \A c \in {Entries(G, m)[1][2]} :
              /\ r.heap.nodes[m].pattern = G.nodes[m].pattern \o G.nodes[c].pattern
              /\ r.heap.nodes[m].children = G.nodes[c].children
              /\ r.heap.nodes[m].wildcard = G.nodes[c].wildcard
              /\ r.heap.nodes[m].permanent = G.nodes[c].permanent
              /\ r.heap.nodes[m].temporary = G.nodes[c].temporary
         /\ r.heap.maps = G.maps
         /\ r.heap.sets = G.sets
         /\ \A k \in (1..Len(G.nodes)) \ {m} : r.heap.nodes[k] = G.nodes[k]

\* the heap in which remove calls shrink() at the parent m of node n, S the
\* heap after the shrink() at n: the child n is detached when it is empty
AtParent(S, m, n) ==
  IF S.nodes[m].wildcard = n
  THEN IF isEmpty(S, n) THEN SetField(S, m, "wildcard", 0) ELSE S
  ELSE DetachEmptyChild(S, CharAt(S.nodes[n].pattern, 0), m)

\* C34: shrink() never changes the stored subscriptions. At every node of
\* every trie, at the node a handler was just removed from, and at its
\* parent after the emptied node was detached, shrink() returns false and
\* mutates nothing where a handler, a wildcard child or two literal children
\* are, never merges a node with the empty label, and a merge gives the node
\* its label followed by its child's and the child's children, wildcard
\* child and handler sets, so that the subscriptions read from the root are
\* the same before and after.
C34_ShrinkFrame ==
  \A n \in 1..Len(heap.nodes) :
    /\ ShrinkFrame(heap, n)
    /\ \A h \in Handlers \cup {NoHandler} :
         \A rm \in {removeHandler(heap, n, h)} :
           /\ ShrinkFrame(rm.heap, n)
           /\ \A s \in {shrink(rm.heap, n)} :
                \A m \in 1..Len(heap.nodes) :
                  (\/ s.heap.nodes[m].wildcard = n
                   \/ \E e \in Range(Entries(s.heap, m)) : e[2] = n)
                    => ShrinkFrame(AtParent(s.heap, m, n), m)

\* C34, its case: the remove of "a*" has detached the wildcard child of the
\* node "a", and shrink() has merged the node with its child "b"
C34_Witness ==
  /\ last.op = "remove"
  /\ last.pattern = <<"a", "*">>
  /\ Registered(heap) = {Sub(<<"a", "b">>, "h2", TRUE)}
  /\ Len(heap.nodes) = 2

-----------------------------------------------------------------------------
(* The shape of the heap *)

\* the references to node n: <<m, i>> for the i-th entry of the children of
\* m, <<m, 0>> for the wildcard child of m
Parents(H, n) ==
  UNION { {<<m, i>> : i \in {j \in 1..Len(Entries(H, m)) : Entries(H, m)[j][2] = n}}
            \cup (IF H.nodes[m].wildcard = n THEN {<<m, 0>>} ELSE {})
          : m \in 1..Len(H.nodes) }

\* the fields, among fs, of the nodes that refer to the object x
Owners(H, fs, x) ==
  {<<m, f>> \in (1..Len(H.nodes)) \X fs : H.nodes[m][f] = x}

\* C35: tree shape. The nodes that the root reaches form a tree: the root has
\* no parent, every other node is reached and has exactly one parent; and no
\* handler set and no children map belongs to two of these nodes, also after
\* the merges of shrink().
C35_Tree ==
  /\ Range(ReachOrder(heap, <<Root>>, <<>>)) = 1..Len(heap.nodes)
  /\ Parents(heap, Root) = {}
  /\ \A n \in NonRoot(heap) : Cardinality(Parents(heap, n)) = 1
  /\ \A x \in 1..Len(heap.sets) :
       Cardinality(Owners(heap, {"permanent", "temporary"}, x)) = 1
  /\ \A x \in 1..Len(heap.maps) : Cardinality(Owners(heap, {"children"}, x)) = 1

\* C35, its case: a dispatch of "a" has consumed the one-shot handler of
\* "a*", and shrink() has merged the node "a" with its child "b", whose
\* handler set and children the merged node has taken over
C35_Witness ==
  /\ last.op = "call"
  /\ last.pattern = <<"a">>
  /\ last.fired = <<"h1">>
  /\ Len(heap.nodes) = 2
  /\ heap.nodes[2].pattern = <<"a", "b">>
  /\ HoldsHandler(heap, 2)

\* C36: every node reached through a wildcard transition has the empty label
\* and has no wildcard child of its own, and every node in a children map
\* has a non-empty label.
C36_WildcardNodes ==
  \A m \in 1..Len(heap.nodes) :
    /\ \A w \in {heap.nodes[m].wildcard} \ {0} :
         heap.nodes[w].pattern = EMPTY /\ heap.nodes[w].wildcard = 0
    /\ \A e \in Range(Entries(heap, m)) : heap.nodes[e[2]].pattern # EMPTY

\* C36, its case: "a**" was inserted into a trie that held "a*a"; the node
\* "a" has one wildcard child, which has a literal child and a handler
C36_Witness ==
  /\ last.op = "insert"
  /\ last.pattern = <<"a", "*", "*">>
  /\ \E m \in 1..Len(heap.nodes) :
       /\ heap.nodes[m].wildcard # 0
       /\ HoldsHandler(heap, heap.nodes[m].wildcard)
       /\ Len(Entries(heap, heap.nodes[m].wildcard)) = 1

-----------------------------------------------------------------------------
(* Errors *)

\* C37: every operation of the pattern matcher terminates without raising an
\* error on every trie the operations reach, the handlers returning
\* normally: no operation has read the first value of an empty Map.
C37_Total == ~heap.err

-----------------------------------------------------------------------------
(* The failure table *)

\* the first k characters of l are also the last k of its first i
IsBorder(l, i, k) == \A x \in 1..k : l[x] = l[i - k + x]

RECURSIVE LongestBorder(_, _, _)
\* the length of the longest proper prefix of the first i characters of l
\* that is also a suffix of them, looked for from length k down
LongestBorder(l, i, k) ==
  IF IsBorder(l, i, k) THEN k ELSE LongestBorder(l, i, k - 1)

\* C38: getFailure() returns the standard KMP failure table of the label of
\* the node, for a non-empty label of any length m: the value read back from
\* cell i - 1 of the table is the length of the longest proper prefix of the
\* first i characters of the label that is also a suffix of them.
C38_FailureTable ==
  \A n \in 1..Len(heap.nodes) :
    heap.nodes[n].pattern # EMPTY =>
      \A f \in {getFailure(heap, n).failure} :
        /\ Len(f) = Len(heap.nodes[n].pattern)
        /\ \A i \in 1..Len(f) : f[i] = LongestBorder(heap.nodes[n].pattern, i, i - 1)

\* C39: the failure table cached on a node is null or the standard KMP table
\* of the label the node has now (a split or a merge, which change the label,
\* leave the cache null).
C39_CacheCoherent ==
  \A n \in 1..Len(heap.nodes) :
    heap.nodes[n].failure # NoFailure =>
      /\ Len(heap.nodes[n].failure) = Len(heap.nodes[n].pattern)
      /\ \A i \in 1..Len(heap.nodes[n].pattern) :
           heap.nodes[n].failure[i] = LongestBorder(heap.nodes[n].pattern, i, i - 1)

-----------------------------------------------------------------------------
(* The representation of nothing *)

\* the node n of H holds a handler, a literal child or a wildcard child
Occupied(H, n) ==
  \/ Held(H, n, "permanent") # <<>>
  \/ Held(H, n, "temporary") # <<>>
  \/ (H.nodes[n].children # 0 /\ H.maps[H.nodes[n].children] # <<>>)
  \/ H.nodes[n].wildcard # 0

\* C40: between two operations, the permanent set, the one-shot set and the
\* children map of each node are null or non-empty; so isEmpty() is true
\* exactly of a node with no handler, no literal child and no wildcard child,
\* and each pattern that patterns() yields has a handler.
C40_NullIfEmpty ==
  /\ \A n \in 1..Len(heap.nodes) :
       /\ heap.nodes[n].permanent # 0 => heap.sets[heap.nodes[n].permanent] # <<>>
       /\ heap.nodes[n].temporary # 0 => heap.sets[heap.nodes[n].temporary] # <<>>
       /\ heap.nodes[n].children # 0 => heap.maps[heap.nodes[n].children] # <<>>
       /\ isEmpty(heap, n) <=> ~Occupied(heap, n)
  /\ \A i \in 1..Len(patterns(heap)) : handlers(heap, patterns(heap)[i]) # <<>>

====
